---- MODULE Spec2Model ----
(***************************************************************************)
(* Degradation-and-maintenance engine of the plant simulator:              *)
(*   - BaseLubricationSystem      (systems/secondary/lubrication_base.py)  *)
(*   - TubeDegradationModel, AdvancedFoulingModel, EnhancedCondenserPhysics *)
(*                                (systems/secondary/condenser/physics.py) *)
(*                                                                         *)
(* The code computes in binary floating point; the model computes in fixed *)
(* point on integers.  Units:                                              *)
(*   dimensionless factors, dt, temperatures, velocities, oil level:       *)
(*        thousandths  (1.0 -> 1000, 1 hour -> 1000, 55 C -> 55000)        *)
(*   oil quality values, additive levels, wear, vibration damage:          *)
(*        millionths   (5.0 ppm -> 5000000, 100 % -> 100000000)            *)
(*   fouling thickness: 1e-7 mm;  fouling resistance: 1e-10 m2K/W          *)
(*   tube counts: thousandths of a tube;  wall thickness: nanometres       *)
(* Every product is divided back to its unit with floor rounding.          *)
(***************************************************************************)
EXTENDS Integers, Sequences, FiniteSets, TLC

VARIABLES engine, lub, condenser, result, steps

vars == <<engine, lub, condenser, result, steps>>

(***************************************************************************)
(* Fixed-point helpers                                                     *)
(***************************************************************************)
Max(a, b) == IF a >= b THEN a ELSE b

Min(a, b) == IF a <= b THEN a ELSE b

Abs(a) == IF a >= 0 THEN a ELSE 0 - a

\* floor(a * b / c) for c > 0, b >= 0, computed without leaving 32 bits
MulDiv(a, b, c) == (a \div c) * b + ((a % c) * b) \div c

\* a * f for a factor f in thousandths
Scale(a, f) == MulDiv(a, f, 1000)

RECURSIVE CbrtSearch(_, _, _)
CbrtSearch(n, lo, hi) ==
    IF hi - lo <= 1 THEN lo
    ELSE LET mid == (lo + hi) \div 2
         IN  IF mid * mid * mid <= n THEN CbrtSearch(n, mid, hi)
                                     ELSE CbrtSearch(n, lo, mid)

\* floor of the cube root of n, 0 <= n < 1290^3
Cbrt(n) == CbrtSearch(n, 0, 1290)

\* python's  sub in s  on strings, the strings given as tuples of characters
IsSubstring(sub, s) ==
    \E i \in 0..(Len(s) - Len(sub)) : SubSeq(s, i + 1, i + Len(sub)) = sub

(***************************************************************************)
(* BaseLubricationConfig, LubricationComponent                             *)
(***************************************************************************)
VG32 == <<"V", "G", " ", "3", "2">>

VG46 == <<"V", "G", " ", "4", "6">>

VG68 == <<"V", "G", " ", "6", "8">>

ISO == <<"I", "S", "O", " ">>

\* oil_viscosity_grade values a configuration may carry
OilGrades == {ISO \o VG32, ISO \o VG46, ISO \o VG68, ISO \o <<"V", "G", " ", "1", "0", "0">>}

\* the fields of BaseLubricationConfig the engine reads
BaseLubricationConfig(grade) ==
    [oil_viscosity_grade |-> grade,
     contamination_limit |-> 15000000,
     moisture_limit |-> 80000,
     acidity_limit |-> 1600000,
     viscosity_change_limit |-> 10000000,
     oil_change_interval |-> 8760000,
     oil_analysis_interval |-> 720000,
     oil_operating_pressure |-> 350,
     oil_temperature_max |-> 80000]

\* the components handed to the constructor
ComponentIds == {"hp_bearing", "thrust_bearing"}

\* LubricationComponent defaults
LubricationComponent ==
    [contamination_wear_factor |-> 2000,
     wear_performance_factor |-> 10,
     lubrication_performance_factor |-> 500,
     wear_alarm_threshold |-> 10000000,
     wear_trip_threshold |-> 25000000]

\* iteration order of self.components (a dict built from the constructor's list)
ComponentOrder == <<"hp_bearing", "thrust_bearing">>

(***************************************************************************)
(* BaseLubricationSystem                                                   *)
(***************************************************************************)
\* __init__: the state of a freshly constructed system
LubInit(config) ==
    [config |-> config,
     oil_level |-> 90000,
     oil_temperature |-> 55000,
     oil_pressure |-> config.oil_operating_pressure,
     oil_flow_rate |-> 50000,
     oil_contamination_level |-> 5000000,
     oil_moisture_content |-> 20000,
     oil_acidity_number |-> 150000,
     oil_viscosity_index |-> 95000,
     oil_viscosity_change |-> 0,
     oil_viscosity_at_40c |-> 46000,
     oil_viscosity_at_100c |-> 6800,
     oil_operating_hours |-> 0,
     antioxidant_level |-> 100000000,
     anti_wear_additive_level |-> 100000000,
     corrosion_inhibitor_level |-> 100000000,
     component_wear |-> [c \in ComponentIds |-> 0],
     component_performance_factors |-> [c \in ComponentIds |-> 1000],
     lubrication_effectiveness |-> 1000,
     system_health_factor |-> 1000,
     maintenance_due |-> FALSE,
     oil_analysis_due |-> FALSE,
     operating_hours |-> 0,
     oil_changes_performed |-> 0,
     filter_changes_performed |-> 0,
     active_alarms |-> <<>>,
     trip_conditions |-> <<>>]

RECURSIVE SumOver(_, _)
SumOver(f, S) ==
    IF S = {} THEN 0
    ELSE LET x == CHOOSE y \in S : TRUE IN f[x] + SumOver(f, S \ {x})

\* fault: the lag without its rate limit
OilTemperatureStep_unlimited(oil_temperature, operating_temperature, dt) ==
    Max(20000, Min(120000,
        oil_temperature + Scale(2 * (operating_temperature - oil_temperature), dt)))

\* lines 209-220: first-order lag toward operating_temperature, rate limit, bounds
OilTemperatureStep(oil_temperature, operating_temperature, dt) ==
    LET temp_change == Scale(2 * (operating_temperature - oil_temperature), dt)
        max_temp_change == 10 * dt
        limited == Max(0 - max_temp_change, Min(max_temp_change, temp_change))
    IN  Max(20000, Min(120000, oil_temperature + limited))

\* fault: the contamination only kept non-negative
ContaminationFloor_zero(level) == Max(0, level)

\* line 273: the contamination floor of the oil-quality step (1 ppm)
ContaminationFloor(level) == Max(1000000, level)

\* lines 299-309: max(0.0, level - rate * dt * 100.0) for 0 <= level <= 100 %,
\* the product not formed when it would pass the level (and the 32-bit range)
Depleted(level, rate, dt) ==
    IF dt > 0 /\ rate \div 1000 > level \div dt THEN 0
    ELSE Max(0, level - Scale(rate, dt))

\* fault: the combined effectiveness without its final bounds (line 335 dropped)
LubricationEffectiveness_unbounded(config, contamination, acidity, moisture, viscosity_change, antioxidant, anti_wear) ==
    LET contamination_factor == Max(100, 1000 - contamination \div (config.contamination_limit \div 1000))
        acidity_factor == Max(100, 1000 - acidity \div (config.acidity_limit \div 1000))
        moisture_factor == Max(100, 1000 - moisture \div (config.moisture_limit \div 1000))
        viscosity_factor == Max(100, 1000 - Abs(viscosity_change) \div (config.viscosity_change_limit \div 1000))
        critical_effectiveness ==
            Cbrt(contamination_factor * (antioxidant \div 100000) * (anti_wear \div 100000))
        secondary_effectiveness == (acidity_factor + moisture_factor + viscosity_factor) \div 3
    IN  (critical_effectiveness * 7 + secondary_effectiveness * 3) \div 10

\* lines 310-335: the overall lubrication quality factor, in thousandths
LubricationEffectiveness(config, contamination, acidity, moisture, viscosity_change, antioxidant, anti_wear) ==
    LET contamination_factor == Max(100, 1000 - contamination \div (config.contamination_limit \div 1000))
        acidity_factor == Max(100, 1000 - acidity \div (config.acidity_limit \div 1000))
        moisture_factor == Max(100, 1000 - moisture \div (config.moisture_limit \div 1000))
        viscosity_factor == Max(100, 1000 - Abs(viscosity_change) \div (config.viscosity_change_limit \div 1000))
        antioxidant_factor == antioxidant \div 100000
        aw_factor == anti_wear \div 100000
        critical_effectiveness == Cbrt(contamination_factor * antioxidant_factor * aw_factor)
        secondary_effectiveness == (acidity_factor + moisture_factor + viscosity_factor) \div 3
        combined == (critical_effectiveness * 7 + secondary_effectiveness * 3) \div 10
    IN  Max(300, Min(1000, combined))

\* update_oil_quality(operating_temperature, contamination_input, moisture_input, dt)
update_oil_quality(s, operating_temperature, contamination_input, moisture_input, dt) ==
    LET oil_temperature == OilTemperatureStep(s.oil_temperature, operating_temperature, dt)
        temp_diff == Max(-50000, Min(200000, oil_temperature - 60000))
        activation_factor == Max(100, Min(1500, 1000 + temp_diff \div 50))
        \* thermal_degradation_rate = 0.00001 * activation_factor, in 1e-8 per hour
        thermal_degradation_rate == activation_factor
        filter_loading_factor == Max(300, 1000 - s.oil_contamination_level \div 50000)
        temp_factor == Max(500, 1000 - (oil_temperature - 60000) \div 60)
        effective_filtration_efficiency == Scale(Scale(600, filter_loading_factor), temp_factor)
        contamination_removal_rate ==
            Scale(Scale(s.oil_contamination_level, effective_filtration_efficiency), 5)
        base_thermal_contamination == (thermal_degradation_rate * 75) \div 10000
        avg_wear == SumOver(s.component_wear, ComponentIds) \div Cardinality(ComponentIds)
        wear_contamination_factor == 1000 + avg_wear \div 20000
        thermal_contamination_input == Scale(base_thermal_contamination, wear_contamination_factor)
        contamination_change ==
            contamination_input - contamination_removal_rate + thermal_contamination_input
        oil_contamination_level ==
            ContaminationFloor(s.oil_contamination_level + Scale(contamination_change, dt))
        moisture_change ==
            IF oil_temperature > 70000 THEN moisture_input - (oil_temperature - 70000)
                                       ELSE moisture_input
        oil_moisture_content == Max(1000, s.oil_moisture_content + Scale(moisture_change, dt))
        contamination_factor == 1000 + oil_contamination_level \div 50000
        acidity_increase_rate == (thermal_degradation_rate * contamination_factor) \div 1000000
        oil_acidity_number == s.oil_acidity_number + Scale(acidity_increase_rate, dt)
        viscosity_change_rate ==
            (thermal_degradation_rate * 5) \div 1000 + contamination_change \div 100
        oil_viscosity_change == s.oil_viscosity_change + Scale(viscosity_change_rate, dt)
        antioxidant_level ==
            Max(0, s.antioxidant_level - Scale(10 * thermal_degradation_rate, dt))
        anti_wear_additive_level ==
            Max(0, s.anti_wear_additive_level - Scale(5 * contamination_input, dt))
        corrosion_inhibitor_level ==
            Depleted(s.corrosion_inhibitor_level, 200 * oil_moisture_content, dt)
    IN  [s EXCEPT
           !.oil_temperature = oil_temperature,
           !.oil_contamination_level = oil_contamination_level,
           !.oil_moisture_content = oil_moisture_content,
           !.oil_acidity_number = oil_acidity_number,
           !.oil_viscosity_change = oil_viscosity_change,
           !.antioxidant_level = antioxidant_level,
           !.anti_wear_additive_level = anti_wear_additive_level,
           !.corrosion_inhibitor_level = corrosion_inhibitor_level,
           !.lubrication_effectiveness =
               LubricationEffectiveness(s.config, oil_contamination_level, oil_acidity_number,
                                        oil_moisture_content, oil_viscosity_change,
                                        antioxidant_level, anti_wear_additive_level),
           !.oil_operating_hours = s.oil_operating_hours + dt,
           !.operating_hours = s.operating_hours + dt]

\* lines 371-380: one component's wear after a step, wear_rate being what the
\* subclass's calculate_component_wear returned
WearStep(wear, wear_rate, lubrication_effectiveness, dt) ==
    LET lubrication_wear_factor ==
            1000 + Scale(1000 - lubrication_effectiveness,
                         LubricationComponent.contamination_wear_factor)
        actual_wear_rate == Scale(wear_rate, lubrication_wear_factor)
    IN  wear + Scale(actual_wear_rate, dt)

\* lines 382-387
PerformanceFactor(wear, lubrication_effectiveness) ==
    LET wear_performance_loss == Scale(wear, LubricationComponent.wear_performance_factor) \div 1000
        lubrication_performance_loss ==
            Scale(1000 - lubrication_effectiveness,
                  LubricationComponent.lubrication_performance_factor)
    IN  Max(100, 1000 - (wear_performance_loss + lubrication_performance_loss))

\* update_component_wear(operating_conditions, dt); wear_rate[c] is the value of
\* the abstract calculate_component_wear(c, conditions)
update_component_wear(s, wear_rate, dt) ==
    LET wear == [c \in ComponentIds |->
                    WearStep(s.component_wear[c], wear_rate[c], s.lubrication_effectiveness, dt)]
        perf == [c \in ComponentIds |-> PerformanceFactor(wear[c], s.lubrication_effectiveness)]
        avg_performance == SumOver(perf, ComponentIds) \div Cardinality(ComponentIds)
    IN  [s EXCEPT
           !.component_wear = wear,
           !.component_performance_factors = perf,
           !.system_health_factor = Scale(avg_performance, s.lubrication_effectiveness)]

\* kwargs.get(key, default): an optional argument is the empty set or a singleton
KwGet(opt, default) == IF opt = {} THEN default ELSE CHOOSE v \in opt : TRUE

\* the keyword arguments of a maintenance request that sets none
NoKwargs == [target_level |-> {}, component_id |-> {}, cleaning_type |-> {}, tubes_to_plug |-> {}]

\* lines 513-520: the result dictionary before the action fills it in
LubResult(success, duration_hours, effectiveness_score, findings) ==
    [success |-> success,
     duration_hours |-> duration_hours,
     effectiveness_score |-> effectiveness_score,
     findings |-> findings]

\* fault: the grade table ignored, every grade given the ISO VG 46 values
FreshViscosity_default(grade) == <<46000, 6800>>

\* lines 541-554: fresh-oil viscosities at 40 C and 100 C for the configured grade
FreshViscosity(grade) ==
    IF IsSubstring(VG32, grade) THEN <<32000, 5400>>
    ELSE IF IsSubstring(VG46, grade) THEN <<46000, 6800>>
    ELSE IF IsSubstring(VG68, grade) THEN <<68000, 8800>>
    ELSE <<46000, 6800>>

\* lines 522-579
OilChange(s) ==
    [state |-> [s EXCEPT
                  !.oil_operating_hours = 0,
                  !.oil_contamination_level = 500000,
                  !.oil_acidity_number = 20000,
                  !.oil_moisture_content = 5000,
                  !.oil_viscosity_change = 0,
                  !.oil_viscosity_index = 95000,
                  !.oil_viscosity_at_40c = FreshViscosity(s.config.oil_viscosity_grade)[1],
                  !.oil_viscosity_at_100c = FreshViscosity(s.config.oil_viscosity_grade)[2],
                  !.antioxidant_level = 100000000,
                  !.anti_wear_additive_level = 100000000,
                  !.corrosion_inhibitor_level = 100000000,
                  !.oil_level = 95000,
                  !.oil_changes_performed = s.oil_changes_performed + 1],
     ret |-> LubResult(TRUE, 4000, 1000, "oil_replaced")]

\* fault: the added percentage taken as the fraction of a tenth of the reservoir
DilutionFactor_tenth(oil_added_percent) == oil_added_percent \div 10

\* line 596: fraction of fresh oil added
DilutionFactor(oil_added_percent) == oil_added_percent \div 100

\* lines 581-644
OilTopOff(s, kwargs) ==
    LET target_level == KwGet(kwargs.target_level, 95000)
        oil_added_percent == Max(0, target_level - s.oil_level)
        dilution_factor == DilutionFactor(oil_added_percent)
        contamination_dilution == Scale(dilution_factor, 700)
        acidity_dilution == Scale(dilution_factor, 400)
        moisture_dilution == Scale(dilution_factor, 500)
        additive_boost == dilution_factor * 30000
        viscosity_improvement == Scale(dilution_factor, 300)
    IN  IF oil_added_percent > 0
        THEN [state |-> [s EXCEPT
                  !.oil_level = Min(100000, target_level),
                  !.oil_contamination_level =
                      Max(500000, Scale(s.oil_contamination_level, 1000 - contamination_dilution)),
                  !.oil_acidity_number =
                      Max(20000, Scale(s.oil_acidity_number, 1000 - acidity_dilution)),
                  !.oil_moisture_content =
                      Max(5000, Scale(s.oil_moisture_content, 1000 - moisture_dilution)),
                  !.antioxidant_level = Min(100000000, s.antioxidant_level + additive_boost),
                  !.anti_wear_additive_level =
                      Min(100000000, s.anti_wear_additive_level + Scale(additive_boost, 800)),
                  !.corrosion_inhibitor_level =
                      Min(100000000, s.corrosion_inhibitor_level + Scale(additive_boost, 600)),
                  !.oil_viscosity_change =
                      Scale(s.oil_viscosity_change, 1000 - viscosity_improvement)],
              ret |-> LubResult(TRUE, 500, Min(1000, 500 + dilution_factor), "oil_added")]
        ELSE [state |-> s,
              ret |-> LubResult(TRUE, 100, 1000, "no_top_off_needed")]

\* lines 646-656
Filtration(s) ==
    [state |-> [s EXCEPT !.oil_contamination_level = Scale(s.oil_contamination_level, 200)],
     ret |-> LubResult(TRUE, 2000, 900, "contamination_removed")]

\* lines 658-669
FilterChange(s) ==
    [state |-> [s EXCEPT
                  !.oil_contamination_level = Scale(s.oil_contamination_level, 500),
                  !.filter_changes_performed = s.filter_changes_performed + 1],
     ret |-> LubResult(TRUE, 1500, 800, "filters_replaced")]

\* fault: a component_id that names no tracked component is refused
ComponentOverhaul_rejectsUnknown(s, kwargs) ==
    LET component_id == KwGet(kwargs.component_id, "")
    IN  IF component_id # "" /\ component_id \in DOMAIN s.component_wear
        THEN [state |-> [s EXCEPT
                  !.component_wear[component_id] = 0,
                  !.component_performance_factors[component_id] = 1000],
              ret |-> LubResult(TRUE, 8000, 1000, "component_overhauled")]
        ELSE IF component_id # ""
        THEN [state |-> s, ret |-> LubResult(FALSE, 0, 0, "unknown_component")]
        ELSE [state |-> [s EXCEPT
                  !.component_wear =
                      [c \in ComponentIds |-> Scale(s.component_wear[c], 100)],
                  !.component_performance_factors =
                      [c \in ComponentIds |->
                          Min(1000, s.component_performance_factors[c] + 200)]],
              ret |-> LubResult(TRUE, 16000, 1000, "all_components_overhauled")]

\* lines 671-699
ComponentOverhaul(s, kwargs) ==
    LET component_id == KwGet(kwargs.component_id, "")
    IN  IF component_id # "" /\ component_id \in DOMAIN s.component_wear
        THEN [state |-> [s EXCEPT
                  !.component_wear[component_id] = 0,
                  !.component_performance_factors[component_id] = 1000],
              ret |-> LubResult(TRUE, 8000, 1000, "component_overhauled")]
        ELSE [state |-> [s EXCEPT
                  !.component_wear =
                      [c \in ComponentIds |-> Scale(s.component_wear[c], 100)],
                  !.component_performance_factors =
                      [c \in ComponentIds |->
                          Min(1000, s.component_performance_factors[c] + 200)]],
              ret |-> LubResult(TRUE, 16000, 1000, "all_components_overhauled")]

\* lines 701-715
AdditiveTreatment(s) ==
    [state |-> [s EXCEPT
                  !.antioxidant_level = Min(100000000, s.antioxidant_level + 50000000),
                  !.anti_wear_additive_level = Min(100000000, s.anti_wear_additive_level + 40000000),
                  !.corrosion_inhibitor_level = Min(100000000, s.corrosion_inhibitor_level + 30000000)],
     ret |-> LubResult(TRUE, 1000, 800, "additives_restored")]

\* lines 717-738
EfficiencyAnalysis(s) ==
    LET efficiency == s.lubrication_effectiveness * 100
    IN  [state |-> s,
         ret |-> LubResult(TRUE, 2000, 1000,
                           IF efficiency > 90000 THEN "excellent"
                           ELSE IF efficiency > 75000 THEN "good" ELSE "poor")]

\* lines 740-751
RoutineMaintenance(s) ==
    [state |-> [s EXCEPT
                  !.oil_level = Min(100000, s.oil_level + 2000),
                  !.oil_contamination_level = Max(1000000, s.oil_contamination_level - 1000000)],
     ret |-> LubResult(TRUE, 3000, 700, "routine")]

\* fault: an unrecognised type keeps the success flag the result starts with
UnknownLubMaintenance_succeeds(s) ==
    [state |-> s, ret |-> LubResult(TRUE, 0, 0, "not_supported")]

\* lines 753-761
UnknownLubMaintenance(s) ==
    [state |-> s, ret |-> LubResult(FALSE, 0, 0, "not_supported")]

\* fault: the closing recalculation run over an hour instead of dt = 0
RecalculateAfterMaintenance_hour(s) == update_oil_quality(s, s.oil_temperature, 0, 0, 1000)

\* lines 763-765: the recalculation that ends a successful maintenance call
RecalculateAfterMaintenance(s) == update_oil_quality(s, s.oil_temperature, 0, 0, 0)

\* the action kinds perform_maintenance of the lubrication system dispatches on
LubMaintenanceTypes ==
    {"oil_change", "oil_top_off", "filtration", "filter_change", "component_overhaul",
     "additive_treatment", "efficiency_analysis", "routine_maintenance"}

\* perform_maintenance(maintenance_type, **kwargs) -> [state, ret]
lub_perform_maintenance(s, maintenance_type, kwargs) ==
    LET r == CASE maintenance_type = "oil_change" -> OilChange(s)
               [] maintenance_type = "oil_top_off" -> OilTopOff(s, kwargs)
               [] maintenance_type = "filtration" -> Filtration(s)
               [] maintenance_type = "filter_change" -> FilterChange(s)
               [] maintenance_type = "component_overhaul" -> ComponentOverhaul(s, kwargs)
               [] maintenance_type = "additive_treatment" -> AdditiveTreatment(s)
               [] maintenance_type = "efficiency_analysis" -> EfficiencyAnalysis(s)
               [] maintenance_type = "routine_maintenance" -> RoutineMaintenance(s)
               [] OTHER -> UnknownLubMaintenance(s)
    IN  [state |-> IF r.ret.success THEN RecalculateAfterMaintenance(r.state) ELSE r.state,
         ret |-> r.ret]

\* lines 405-420: the flags check_maintenance_requirements returns
MaintenanceFlags(s) ==
    [oil_change_due |-> s.oil_operating_hours >= s.config.oil_change_interval,
     oil_analysis_due |-> (s.oil_operating_hours % s.config.oil_analysis_interval) < 1000,
     contamination_high |-> s.oil_contamination_level >= s.config.contamination_limit,
     acidity_high |-> s.oil_acidity_number >= s.config.acidity_limit,
     moisture_high |-> s.oil_moisture_content >= s.config.moisture_limit,
     viscosity_change_high |-> Abs(s.oil_viscosity_change) >= s.config.viscosity_change_limit,
     antioxidants_depleted |-> s.antioxidant_level < 20000000,
     additives_depleted |-> s.anti_wear_additive_level < 30000000,
     wear_alarm |-> [c \in ComponentIds |->
                        s.component_wear[c] >= LubricationComponent.wear_alarm_threshold],
     wear_trip |-> [c \in ComponentIds |->
                       s.component_wear[c] >= LubricationComponent.wear_trip_threshold]]

\* check_maintenance_requirements() -> [state, ret]
check_maintenance_requirements(s) ==
    LET flags == MaintenanceFlags(s)
    IN  [state |-> [s EXCEPT
                      !.maintenance_due = flags.oil_change_due \/ flags.contamination_high
                                          \/ flags.acidity_high \/ flags.moisture_high,
                      !.oil_analysis_due = flags.oil_analysis_due],
         ret |-> flags]

\* the sequence xs with x appended when test holds
AppendIf(xs, test, x) == IF test THEN Append(xs, x) ELSE xs

RECURSIVE WearAlarms(_, _, _, _)
WearAlarms(s, i, threshold, label) ==
    IF i > Len(ComponentOrder) THEN <<>>
    ELSE AppendIf(<<>>, s.component_wear[ComponentOrder[i]] >= threshold,
                  <<ComponentOrder[i], label>>)
         \o WearAlarms(s, i + 1, threshold, label)

\* lines 436-490: the alarm list
Alarms(s) ==
    LET a1 == AppendIf(<<>>, s.oil_contamination_level >= Scale(s.config.contamination_limit, 800),
                       <<"High Oil Contamination">>)
        a2 == AppendIf(a1, s.oil_acidity_number >= Scale(s.config.acidity_limit, 800),
                       <<"High Oil Acidity">>)
        a3 == AppendIf(a2, s.oil_moisture_content >= Scale(s.config.moisture_limit, 800),
                       <<"High Oil Moisture">>)
        a4 == AppendIf(a3, s.oil_level < 20000, <<"Low Oil Level">>)
        a5 == AppendIf(a4, s.oil_level > 95000, <<"High Oil Level">>)
        a6 == AppendIf(a5, s.oil_pressure < Scale(s.config.oil_operating_pressure, 800),
                       <<"Low Oil Pressure">>)
        a7 == AppendIf(a6, s.oil_temperature > s.config.oil_temperature_max,
                       <<"High Oil Temperature">>)
        a8 == a7 \o WearAlarms(s, 1, LubricationComponent.wear_alarm_threshold, "Wear Alarm")
        a9 == AppendIf(a8, s.antioxidant_level < 30000000, <<"Antioxidant Depletion">>)
    IN  AppendIf(a9, s.anti_wear_additive_level < 40000000, <<"Anti-Wear Additive Depletion">>)

\* lines 436-484: the trip list
Trips(s) ==
    LET t1 == AppendIf(<<>>, s.oil_contamination_level >= s.config.contamination_limit,
                       <<"Excessive Oil Contamination">>)
        t2 == AppendIf(t1, s.oil_acidity_number >= s.config.acidity_limit,
                       <<"Excessive Oil Acidity">>)
        t3 == AppendIf(t2, s.oil_moisture_content >= s.config.moisture_limit,
                       <<"Excessive Oil Moisture">>)
        t4 == AppendIf(t3, s.oil_level < 10000, <<"Very Low Oil Level">>)
        t5 == AppendIf(t4, s.oil_level > 105000, <<"Oil System Overfill">>)
        t6 == AppendIf(t5, s.oil_pressure < Scale(s.config.oil_operating_pressure, 600),
                       <<"Very Low Oil Pressure">>)
        t7 == AppendIf(t6, s.oil_temperature > s.config.oil_temperature_max + 10000,
                       <<"Excessive Oil Temperature">>)
    IN  t7 \o WearAlarms(s, 1, LubricationComponent.wear_trip_threshold, "Wear Trip")

\* check_alarms_and_trips() -> [state, ret]
check_alarms_and_trips(s) ==
    [state |-> [s EXCEPT !.active_alarms = Alarms(s), !.trip_conditions = Trips(s)],
     ret |-> [alarms |-> Alarms(s), trips |-> Trips(s),
              alarm_count |-> Len(Alarms(s)), trip_count |-> Len(Trips(s))]]

\* reset()
lub_reset(s) ==
    [s EXCEPT
       !.oil_level = 90000,
       !.oil_temperature = 55000,
       !.oil_pressure = s.config.oil_operating_pressure,
       !.oil_flow_rate = 50000,
       !.oil_contamination_level = 5000000,
       !.oil_moisture_content = 20000,
       !.oil_acidity_number = 150000,
       !.oil_viscosity_index = 95000,
       !.oil_viscosity_change = 0,
       !.oil_operating_hours = 0,
       !.antioxidant_level = 100000000,
       !.anti_wear_additive_level = 100000000,
       !.corrosion_inhibitor_level = 100000000,
       !.component_wear = [c \in ComponentIds |-> 0],
       !.component_performance_factors = [c \in ComponentIds |-> 1000],
       !.lubrication_effectiveness = 1000,
       !.system_health_factor = 1000,
       !.maintenance_due = FALSE,
       !.oil_analysis_due = FALSE,
       !.operating_hours = 0,
       !.oil_changes_performed = 0,
       !.filter_changes_performed = 0,
       !.active_alarms = <<>>,
       !.trip_conditions = <<>>]

(***************************************************************************)
(* CondenserConfig: the fields the engine reads.  tube counts in           *)
(* thousandths of a tube, wall thickness and corrosion rate in nanometres, *)
(* tube_failure_rate in 1e-9 per hour, tube_area in mm2.                   *)
(***************************************************************************)
CondenserConfig ==
    [initial_tube_count |-> 28000000,
     tube_count |-> 28000000,
     heat_transfer_tube_count |-> 28000000,
     wall_thickness_initial |-> 1240000,
     wall_thickness_minimum |-> 500000,
     vibration_damage_threshold |-> 3000,
     corrosion_rate |-> 10,
     tube_failure_rate |-> 10000,
     tube_area |-> 507,
     biofouling_base_rate |-> 1000,
     biofouling_temp_coefficient |-> 100,
     biofouling_nutrient_factor |-> 1000,
     scale_base_rate |-> 500,
     scale_temp_coefficient |-> 500,
     scale_hardness_coefficient |-> 1000,
     corrosion_base_rate |-> 200,
     corrosion_oxygen_coefficient |-> 100,
     corrosion_ph_optimum |-> 7500]

\* floor(a * f / 1000000) for a >= 0, f >= 0, computed without leaving 32 bits
Mul6(a, f) ==
    LET a1 == a \div 1000
        a0 == a % 1000
        f1 == f \div 1000
        f0 == f % 1000
    IN  a1 * f1 + (a1 * f0 + a0 * f1 + (a0 * f0) \div 1000) \div 1000

\* y^5 in thousandths
Pow5(y) == Scale(Scale(Scale(Scale(y, y), y), y), y)

RECURSIVE FifthRootSearch(_, _, _)
FifthRootSearch(n, lo, hi) ==
    IF hi - lo <= 1 THEN lo
    ELSE LET mid == (lo + hi) \div 2
         IN  IF Pow5(mid) <= n THEN FifthRootSearch(n, mid, hi)
                               ELSE FifthRootSearch(n, lo, mid)

\* x ** 1.8 in thousandths, for 0 <= x <= 28.0: x * (x^4)^(1/5)
Pow18(x) ==
    LET x4 == Scale(Scale(Scale(x, x), x), x)
    IN  Scale(x, FifthRootSearch(x4, 0, 15000))

RECURSIVE ExpTerms(_, _, _)
ExpTerms(x, k, term) ==
    IF k > 12 \/ term = 0 THEN 0
    ELSE term + ExpTerms(x, k + 1, Scale(term, x) \div k)

\* np.exp(x) in thousandths, by its power series, for |x| <= 3.0
Exp(x) == Max(0, ExpTerms(x, 1, 1000))

(***************************************************************************)
(* TubeDegradationModel                                                    *)
(***************************************************************************)
\* __init__
TubeInit(config) ==
    [active_tube_count |-> config.initial_tube_count,
     plugged_tube_count |-> 0,
     average_wall_thickness |-> config.wall_thickness_initial,
     tube_leak_rate |-> 0,
     vibration_damage_accumulation |-> 0,
     corrosion_damage_accumulation |-> 0,
     operating_hours |-> 0,
     effective_heat_transfer_area_factor |-> 1000,
     tube_side_pressure_drop_factor |-> 1000]

\* fault: the damage of a step subtracted instead of added
VibrationDamage_subtracts(config, damage, cooling_water_velocity, dt) ==
    IF cooling_water_velocity > config.vibration_damage_threshold
    THEN LET excess == cooling_water_velocity - config.vibration_damage_threshold
         IN  damage - Scale(MulDiv(excess, excess, 1000), dt)
    ELSE damage

\* fault: the threshold test dropped, the squared difference accrued at any velocity
VibrationDamage_anyVelocity(config, damage, cooling_water_velocity, dt) ==
    LET excess == cooling_water_velocity - config.vibration_damage_threshold
    IN  damage + Scale(MulDiv(excess, excess, 1000), dt)

\* lines 88-91: vibration damage, accrued only above the velocity threshold
VibrationDamage(config, damage, cooling_water_velocity, dt) ==
    IF cooling_water_velocity > config.vibration_damage_threshold
    THEN LET excess == cooling_water_velocity - config.vibration_damage_threshold
             vibration_damage_rate == MulDiv(excess, excess, 1000)
         IN  damage + Scale(vibration_damage_rate, dt)
    ELSE damage

\* fault: the failures of a step without the 1 % cap (line 115 dropped)
TubesFailed_uncapped(effective_failure_rate, active_tube_count, dt) ==
    Mul6(active_tube_count, Max(0, Scale(effective_failure_rate, dt) \div 1000))

\* lines 113-115: tubes failed in the step, capped at 1% of the active tubes
TubesFailed(effective_failure_rate, active_tube_count, dt) ==
    LET fraction == Scale(effective_failure_rate, dt) \div 1000
        tubes_failed == IF fraction >= 0 THEN Mul6(active_tube_count, fraction)
                                         ELSE 0 - Mul6(active_tube_count, 0 - fraction)
    IN  Min(tubes_failed, active_tube_count \div 100)

\* fault: the active count after failures without its floor
ActiveAfterFailures_unfloored(config, plugged_tube_count) ==
    config.initial_tube_count - plugged_tube_count

\* line 119: the active count after failures, floored at 1000 tubes
ActiveAfterFailures(config, plugged_tube_count) ==
    Max(1000000, config.initial_tube_count - plugged_tube_count)

\* update_tube_failures(cooling_water_velocity, water_chemistry_aggressiveness, dt)
update_tube_failures(config, t, cooling_water_velocity, water_chemistry_aggressiveness, dt) ==
    LET vibration_damage_accumulation ==
            VibrationDamage(config, t.vibration_damage_accumulation, cooling_water_velocity, dt)
        corrosion_rate ==
            Scale(Scale(config.corrosion_rate, water_chemistry_aggressiveness),
                  1000 + vibration_damage_accumulation \div 1000)
        wall_thickness_loss == Scale(corrosion_rate, dt)
        average_wall_thickness ==
            Max(config.wall_thickness_minimum, t.average_wall_thickness - wall_thickness_loss)
        corrosion_damage_accumulation == t.corrosion_damage_accumulation + wall_thickness_loss
        vibration_factor == 1000 + vibration_damage_accumulation \div 100
        corrosion_factor ==
            1000 + MulDiv(corrosion_damage_accumulation, 5, config.wall_thickness_initial \div 1000)
        chemistry_factor == 1000 + water_chemistry_aggressiveness
        effective_failure_rate ==
            Scale(Scale(Scale(config.tube_failure_rate, vibration_factor), corrosion_factor),
                  chemistry_factor)
        tubes_failed == TubesFailed(effective_failure_rate, t.active_tube_count, dt)
        plugged_tube_count == t.plugged_tube_count + tubes_failed
        active_tube_count == ActiveAfterFailures(config, plugged_tube_count)
        velocity_increase_factor == config.initial_tube_count \div (active_tube_count \div 1000)
        leak_prone_tubes == Min(tubes_failed \div 10, active_tube_count \div 1000)
    IN  [state |-> [t EXCEPT
                      !.vibration_damage_accumulation = vibration_damage_accumulation,
                      !.average_wall_thickness = average_wall_thickness,
                      !.corrosion_damage_accumulation = corrosion_damage_accumulation,
                      !.plugged_tube_count = plugged_tube_count,
                      !.active_tube_count = active_tube_count,
                      !.effective_heat_transfer_area_factor =
                          active_tube_count \div (config.initial_tube_count \div 1000),
                      !.tube_side_pressure_drop_factor = Pow18(velocity_increase_factor),
                      !.tube_leak_rate = leak_prone_tubes,
                      !.operating_hours = t.operating_hours + dt],
         ret |-> [tubes_failed_this_step |-> tubes_failed]]

(***************************************************************************)
(* AdvancedFoulingModel                                                    *)
(***************************************************************************)
\* __init__
FoulingInit ==
    [biofouling_thickness |-> 0,
     scale_thickness |-> 0,
     corrosion_product_thickness |-> 0,
     fouling_distribution_factor |-> 1000,
     time_since_cleaning |-> 0,
     cleaning_effectiveness_history |-> <<>>,
     total_fouling_resistance |-> 0]

\* 1 / (1 + x) in thousandths, x in thousandths
Inverse1Plus(x) == 1000000 \div (1000 + x)

\* a growth rate (mm per 1000 h, thousandths) over dt, in 1e-7 mm
GrowthOver(rate, dt) == Scale(rate * 10, dt)

\* calculate_biofouling(water_temperature, chlorine_residual, nutrient_level, dt)
calculate_biofouling(config, f, water_temperature, chlorine_residual, nutrient_level, dt) ==
    LET temp_factor == Exp(Scale(config.biofouling_temp_coefficient, water_temperature - 25000))
        chlorine_factor == Inverse1Plus(chlorine_residual * 2)
        nutrient_factor == Scale(nutrient_level, config.biofouling_nutrient_factor)
        growth_rate ==
            Scale(Scale(Scale(config.biofouling_base_rate, temp_factor), chlorine_factor),
                  nutrient_factor)
        thickness_factor == Inverse1Plus(f.biofouling_thickness \div 20000)
    IN  Max(0, GrowthOver(Scale(growth_rate, thickness_factor), dt))

\* calculate_scale_formation(water_temperature, water_hardness, ph, antiscalant, dt)
calculate_scale_formation(config, f, water_temperature, water_hardness, ph, antiscalant_concentration, dt) ==
    LET temp_factor ==
            Exp(Scale(config.scale_temp_coefficient, water_temperature - 25000) \div 10)
        hardness_factor == Scale(water_hardness \div 150, config.scale_hardness_coefficient)
        ph_factor == Max(100, (ph - 6000) \div 2)
        antiscalant_factor == Inverse1Plus(antiscalant_concentration \div 5)
        formation_rate ==
            Scale(Scale(Scale(Scale(config.scale_base_rate, temp_factor), hardness_factor),
                        ph_factor), antiscalant_factor)
        thickness_factor == Inverse1Plus(f.scale_thickness \div 10000)
    IN  Max(0, GrowthOver(Scale(formation_rate, thickness_factor), dt))

\* calculate_corrosion_products(water_temperature, dissolved_oxygen, ph,
\*                              corrosion_inhibitor, flow_velocity, dt)
calculate_corrosion_products(config, water_temperature, dissolved_oxygen, ph, corrosion_inhibitor, flow_velocity, dt) ==
    LET temp_factor == Exp((water_temperature - 25000) \div 20)
        oxygen_factor == Scale(dissolved_oxygen, config.corrosion_oxygen_coefficient)
        ph_deviation == Abs(ph - config.corrosion_ph_optimum)
        ph_factor == 1000 + ph_deviation \div 2
        inhibitor_factor == Inverse1Plus(corrosion_inhibitor \div 10)
        velocity_factor == Inverse1Plus(flow_velocity \div 2)
        formation_rate ==
            Scale(Scale(Scale(Scale(Scale(config.corrosion_base_rate, temp_factor),
                                    oxygen_factor), ph_factor), inhibitor_factor),
                  velocity_factor)
    IN  Max(0, GrowthOver(formation_rate, dt))

\* calculate_total_fouling_resistance(): thickness / conductivity per mechanism
\* (0.5, 2.0 and 1.0 W/m/K), summed, times the distribution factor
calculate_total_fouling_resistance(f) ==
    LET bio_resistance == 2 * f.biofouling_thickness
        corrosion_resistance == f.corrosion_product_thickness
        total_resistance == bio_resistance + f.scale_thickness \div 2 + corrosion_resistance
    IN  Scale(total_resistance, f.fouling_distribution_factor)

\* line 369: the distribution factor for a time since cleaning
DistributionFactor(time_since_cleaning) == Min(1500, 1000 + time_since_cleaning \div 8760)

\* lines 342-348: water_chemistry.get(key, default)
ChemistryDefaults ==
    [chlorine_residual |-> 500, hardness |-> 150000, ph |-> 7500, dissolved_oxygen |-> 8000,
     antiscalant |-> 5000, corrosion_inhibitor |-> 10000, nutrient_level |-> 1000]

\* update_fouling(water_temp, water_chemistry, flow_velocity, dt)
update_fouling(config, f, water_temp, water_chemistry, flow_velocity, dt) ==
    LET bio_increase ==
            calculate_biofouling(config, f, water_temp, water_chemistry.chlorine_residual,
                                 water_chemistry.nutrient_level, dt)
        scale_increase ==
            calculate_scale_formation(config, f, water_temp, water_chemistry.hardness,
                                      water_chemistry.ph, water_chemistry.antiscalant, dt)
        corrosion_increase ==
            calculate_corrosion_products(config, water_temp, water_chemistry.dissolved_oxygen,
                                         water_chemistry.ph, water_chemistry.corrosion_inhibitor,
                                         flow_velocity, dt)
        grown == [f EXCEPT
                    !.biofouling_thickness = f.biofouling_thickness + bio_increase,
                    !.scale_thickness = f.scale_thickness + scale_increase,
                    !.corrosion_product_thickness = f.corrosion_product_thickness + corrosion_increase,
                    !.time_since_cleaning = f.time_since_cleaning + dt]
    IN  [grown EXCEPT
           !.total_fouling_resistance = calculate_total_fouling_resistance(grown),
           !.fouling_distribution_factor = DistributionFactor(grown.time_since_cleaning)]

\* fault: a cleaning that removes nothing
RemovalFractions_none(cleaning_type) == <<0, 0, 0>>

\* lines 396-418: removal fractions (biofouling, scale, corrosion products)
RemovalFractions(cleaning_type) ==
    CASE cleaning_type = "chemical" -> <<800, 600, 300>>
      [] cleaning_type = "mechanical" -> <<500, 700, 800>>
      [] cleaning_type = "hydroblast" -> <<900, 400, 900>>
      [] OTHER -> <<600, 500, 500>>

\* perform_cleaning(cleaning_type) -> [state, ret]
perform_cleaning(f, cleaning_type) ==
    LET removal == RemovalFractions(cleaning_type)
        bio_removed == Scale(f.biofouling_thickness, removal[1])
        scale_removed == Scale(f.scale_thickness, removal[2])
        corrosion_removed == Scale(f.corrosion_product_thickness, removal[3])
        cleaned == [f EXCEPT
                      !.biofouling_thickness = f.biofouling_thickness - bio_removed,
                      !.scale_thickness = f.scale_thickness - scale_removed,
                      !.corrosion_product_thickness = f.corrosion_product_thickness - corrosion_removed,
                      !.time_since_cleaning = 0,
                      !.fouling_distribution_factor = 1000]
        total_removed == bio_removed + scale_removed + corrosion_removed
        after == [cleaned EXCEPT
                    !.total_fouling_resistance = calculate_total_fouling_resistance(cleaned),
                    !.cleaning_effectiveness_history =
                        Append(f.cleaning_effectiveness_history, total_removed)]
    IN  [state |-> after,
         ret |-> [bio_removed |-> bio_removed,
                  scale_removed |-> scale_removed,
                  corrosion_removed |-> corrosion_removed,
                  total_removed |-> total_removed,
                  new_fouling_resistance |-> after.total_fouling_resistance]]

(***************************************************************************)
(* EnhancedCondenserPhysics                                                *)
(***************************************************************************)
\* The water chemistry and vacuum systems are collaborators outside this
\* engine; the fields the engine reads and writes are kept, and what the
\* collaborators compute is an input of the operation that calls them.
WaterChemistryInit ==
    [ph |-> 7500, hardness |-> 150000, tds |-> 500000, chlorine_residual |-> 500,
     antiscalant |-> 5000, corrosion_inhibitor |-> 10000, water_aggressiveness |-> 1000]

VacuumSystemInit == [current_air_leakage |-> 100, system_efficiency |-> 1000]

\* the initial-condition fields the engine applies; {} is an absent field
NoInitialConditions ==
    [active_tube_count |-> {}, plugged_tube_count |-> {}, average_wall_thickness |-> {},
     biofouling_thickness |-> {}, scale_thickness |-> {}, corrosion_thickness |-> {},
     total_fouling_resistance |-> {}, time_since_cleaning |-> {}]

\* lines 851-859, 1549-1554
FoulingFactor(total_fouling_resistance) ==
    Max(300, 1000 - total_fouling_resistance \div 2000000)

ThermalPerformanceFactor(area_factor, total_fouling_resistance, vacuum_factor) ==
    Scale(Scale(area_factor, FoulingFactor(total_fouling_resistance)), vacuum_factor)

\* _apply_initial_conditions(), tube and fouling conditions
ApplyTubeConditions(t, ic) ==
    [t EXCEPT
       !.active_tube_count = KwGet(ic.active_tube_count, t.active_tube_count),
       !.plugged_tube_count = KwGet(ic.plugged_tube_count, t.plugged_tube_count),
       !.average_wall_thickness = KwGet(ic.average_wall_thickness, t.average_wall_thickness)]

ApplyFoulingConditions(f, ic) ==
    [f EXCEPT
       !.biofouling_thickness = KwGet(ic.biofouling_thickness, f.biofouling_thickness),
       !.scale_thickness = KwGet(ic.scale_thickness, f.scale_thickness),
       !.corrosion_product_thickness = KwGet(ic.corrosion_thickness, f.corrosion_product_thickness),
       !.total_fouling_resistance = KwGet(ic.total_fouling_resistance, f.total_fouling_resistance),
       !.time_since_cleaning = KwGet(ic.time_since_cleaning, f.time_since_cleaning)]

\* _update_derived_parameters()
update_derived_parameters(c) ==
    LET t == c.tube_degradation
        f == c.fouling_model
        tube == IF t.active_tube_count > 0
                THEN [t EXCEPT !.effective_heat_transfer_area_factor =
                          t.active_tube_count \div (c.config.heat_transfer_tube_count \div 1000)]
                ELSE t
        components_set == \/ f.biofouling_thickness > 0
                          \/ f.scale_thickness > 0
                          \/ f.corrosion_product_thickness > 0
        fouling == IF components_set /\ f.total_fouling_resistance = 0
                   THEN [f EXCEPT !.total_fouling_resistance =
                             calculate_total_fouling_resistance(f)]
                   ELSE f
    IN  [c EXCEPT
           !.tube_degradation = tube,
           !.fouling_model = fouling,
           !.thermal_performance_factor =
               ThermalPerformanceFactor(tube.effective_heat_transfer_area_factor,
                                        fouling.total_fouling_resistance,
                                        c.vacuum_system.system_efficiency)]

\* __init__(config) with the configuration's initial conditions
CondenserInit(config, initial_conditions) ==
    update_derived_parameters(
        [config |-> config,
         water_chemistry |-> WaterChemistryInit,
         tube_degradation |-> ApplyTubeConditions(TubeInit(config), initial_conditions),
         fouling_model |-> ApplyFoulingConditions(FoulingInit, initial_conditions),
         vacuum_system |-> VacuumSystemInit,
         cooling_water_flow |-> 45000,
         cooling_water_inlet_temp |-> 25000,
         cooling_water_outlet_temp |-> 35000,
         thermal_performance_factor |-> 1000,
         operating_hours |-> 0])

\* lines 802-805: cooling water velocity through the active tubes
CoolingWaterVelocity(config, cooling_water_flow, active_tube_count) ==
    LET total_flow_area == (config.tube_area * (active_tube_count \div 1000)) \div 1000
    IN  (cooling_water_flow * 1000) \div total_flow_area

\* lines 786-800: the chemistry dictionary handed to the fouling model
WaterQualityResults(w) ==
    [ph |-> w.ph, hardness |-> w.hardness, dissolved_oxygen |-> 8000,
     chlorine_residual |-> w.chlorine_residual, antiscalant |-> w.antiscalant,
     corrosion_inhibitor |-> w.corrosion_inhibitor,
     nutrient_level |-> Min(2000, w.tds \div 500)]

\* update_state(..., cooling_water_flow, cooling_water_temp_in, ..., dt); in.chemistry,
\* in.system_efficiency and in.cooling_water_temp_out are what the water chemistry,
\* the vacuum system and the heat transfer calculation return for the step
update_state(c, in) ==
    LET cooling_water_velocity ==
            CoolingWaterVelocity(c.config, in.cooling_water_flow,
                                 c.tube_degradation.active_tube_count)
        tube == update_tube_failures(c.config, c.tube_degradation, cooling_water_velocity,
                                     in.chemistry.water_aggressiveness, in.dt)
        avg_cooling_water_temp == (in.cooling_water_temp_in + c.cooling_water_outlet_temp) \div 2
        fouling == update_fouling(c.config, c.fouling_model, avg_cooling_water_temp,
                                  WaterQualityResults(in.chemistry), cooling_water_velocity, in.dt)
    IN  [state |-> [c EXCEPT
                      !.cooling_water_flow = in.cooling_water_flow,
                      !.cooling_water_inlet_temp = in.cooling_water_temp_in,
                      !.water_chemistry = in.chemistry,
                      !.tube_degradation = tube.state,
                      !.fouling_model = fouling,
                      !.vacuum_system.system_efficiency = in.system_efficiency,
                      !.cooling_water_outlet_temp = in.cooling_water_temp_out,
                      !.operating_hours = c.operating_hours + in.dt,
                      !.thermal_performance_factor =
                          ThermalPerformanceFactor(
                              tube.state.effective_heat_transfer_area_factor,
                              fouling.total_fouling_resistance, in.system_efficiency)],
         ret |-> [tubes_failed_this_step |-> tube.ret.tubes_failed_this_step,
                  cooling_water_velocity |-> cooling_water_velocity,
                  total_fouling_resistance |-> fouling.total_fouling_resistance]]

\* create_maintenance_result(...): the fields of the result the engine fills in
CondResult(success, duration, performance_improvement, effectiveness_score) ==
    [success |-> success, duration_hours |-> duration,
     performance_improvement |-> performance_improvement,
     effectiveness_score |-> effectiveness_score, raised |-> FALSE]

\* lines 1204-1232
CondenserTubeCleaning(c, kwargs) ==
    LET cleaning_type == KwGet(kwargs.cleaning_type, "chemical")
        old_fouling == c.fouling_model.total_fouling_resistance
        cleaning_result == perform_cleaning(c.fouling_model, cleaning_type)
        fouling_reduction == old_fouling - cleaning_result.state.total_fouling_resistance
        performance_improvement == fouling_reduction \div (Max(10000000, old_fouling) \div 100000)
    IN  [state |-> [c EXCEPT
                      !.fouling_model = cleaning_result.state,
                      !.thermal_performance_factor =
                          Min(1000, c.thermal_performance_factor + performance_improvement \div 100)],
         ret |-> CondResult(TRUE, 8000, performance_improvement,
                            {Min(1000, performance_improvement \div 10)})]

\* lines 1234-1263
CondenserTubePlugging(c, kwargs) ==
    LET tubes_to_plug == KwGet(kwargs.tubes_to_plug, 10000)
        t == c.tube_degradation
        old_active_count == t.active_tube_count
        active_tube_count == Max(1000000, old_active_count - tubes_to_plug)
        performance_impact == MulDiv(tubes_to_plug, 100, c.config.tube_count \div 1000)
    IN  [state |-> [c EXCEPT
                      !.tube_degradation =
                          [t EXCEPT
                             !.plugged_tube_count = t.plugged_tube_count + tubes_to_plug,
                             !.active_tube_count = active_tube_count,
                             !.effective_heat_transfer_area_factor =
                                 active_tube_count \div (c.config.tube_count \div 1000),
                             !.tube_leak_rate = Max(0, t.tube_leak_rate - 5000)]],
         ret |-> CondResult(TRUE, 4000, 0 - performance_impact, {})]

\* lines 1265-1289
CondenserChemicalCleaning(c) ==
    LET old_performance == c.thermal_performance_factor
        cleaning_result == perform_cleaning(c.fouling_model, "chemical")
        thermal_performance_factor == Min(1000, c.thermal_performance_factor + 100)
        performance_improvement == (thermal_performance_factor - old_performance) * 100
    IN  [state |-> [c EXCEPT
                      !.fouling_model = cleaning_result.state,
                      !.thermal_performance_factor = thermal_performance_factor],
         ret |-> CondResult(TRUE, 12000, performance_improvement,
                            {Min(1000, performance_improvement \div 15)})]

\* lines 1291-1317; treated is the water chemistry after perform_chemical_treatment
CondenserWaterTreatment(c, treated) ==
    LET old_aggressiveness == c.water_chemistry.water_aggressiveness
        f == c.fouling_model
        slowed == [f EXCEPT
                     !.biofouling_thickness = Scale(f.biofouling_thickness, 900),
                     !.scale_thickness = Scale(f.scale_thickness, 800),
                     !.corrosion_product_thickness = Scale(f.corrosion_product_thickness, 700)]
        improvement == (old_aggressiveness - treated.water_aggressiveness) * 50
    IN  [state |-> [c EXCEPT
                      !.water_chemistry = treated,
                      !.fouling_model =
                          [slowed EXCEPT !.total_fouling_resistance =
                               calculate_total_fouling_resistance(slowed)]],
         ret |-> CondResult(TRUE, 2000, improvement, {})]

\* lines 1319-1343: a test that only reads the vacuum system
VacuumSystemTest(c) ==
    [state |-> c, ret |-> CondResult(TRUE, 4000, 0, {})]

\* lines 1345-1364: the division by old_leakage raises when there was no leakage
VacuumLeakDetection(c) ==
    LET old_leakage == c.vacuum_system.current_air_leakage
        current_air_leakage == old_leakage \div 2
        leakage_reduction == old_leakage - current_air_leakage
        after == [c EXCEPT !.vacuum_system.current_air_leakage = current_air_leakage]
    IN  IF old_leakage = 0
        THEN [state |-> after, ret |-> [CondResult(FALSE, 0, 0, {}) EXCEPT !.raised = TRUE]]
        ELSE [state |-> after,
              ret |-> CondResult(TRUE, 6000, (leakage_reduction * 10000) \div old_leakage, {})]

\* lines 1366-1372
UnknownCondMaintenance(c) ==
    [state |-> c, ret |-> CondResult(FALSE, 0, 0, {})]

CondMaintenanceTypes ==
    {"condenser_tube_cleaning", "condenser_tube_plugging", "condenser_chemical_cleaning",
     "condenser_water_treatment", "vacuum_system_test", "vacuum_leak_detection"}

\* perform_maintenance(maintenance_type, **kwargs): the definition at line 1188,
\* which replaces the one at line 912
cond_perform_maintenance(c, maintenance_type, kwargs, treated) ==
    CASE maintenance_type = "condenser_tube_cleaning" -> CondenserTubeCleaning(c, kwargs)
      [] maintenance_type = "condenser_tube_plugging" -> CondenserTubePlugging(c, kwargs)
      [] maintenance_type = "condenser_chemical_cleaning" -> CondenserChemicalCleaning(c)
      [] maintenance_type = "condenser_water_treatment" -> CondenserWaterTreatment(c, treated)
      [] maintenance_type = "vacuum_system_test" -> VacuumSystemTest(c)
      [] maintenance_type = "vacuum_leak_detection" -> VacuumLeakDetection(c)
      [] OTHER -> UnknownCondMaintenance(c)

\* the keys of chemistry_state that reach the tube and fouling models; {} is an absent key
NoChemistryEffects ==
    [steam_quality |-> {}, ph_stability |-> {}, biocide_effectiveness |-> {},
     antiscalant_effectiveness |-> {}, corrosion_inhibitor_effectiveness |-> {},
     balance_error |-> {}]

\* lines 1668-1679
SteamChemistryEffects(c, e) ==
    IF e.steam_quality # {} /\ KwGet(e.steam_quality, 0) < 950
    THEN LET fouling_acceleration == (950 - KwGet(e.steam_quality, 0)) * 2
         IN  [c EXCEPT
                !.fouling_model.biofouling_thickness =
                    Scale(@, 1000 + fouling_acceleration \div 10),
                !.fouling_model.scale_thickness =
                    Scale(@, 1000 + fouling_acceleration \div 20)]
    ELSE c

\* lines 1696-1710
PhControlEffects(c, e) ==
    IF e.ph_stability # {} /\ KwGet(e.ph_stability, 0) > 900
    THEN LET corrosion_reduction == (KwGet(e.ph_stability, 0) - 900) \div 2
         IN  [c EXCEPT
                !.tube_degradation.corrosion_damage_accumulation =
                    Scale(@, 1000 - corrosion_reduction),
                !.fouling_model.corrosion_product_thickness =
                    Scale(@, 1000 - (corrosion_reduction * 3) \div 10)]
    ELSE c

\* lines 1713-1738
CoolingWaterTreatmentEffects(c, e) ==
    LET biocide_eff == KwGet(e.biocide_effectiveness, 0)
        antiscalant_eff == KwGet(e.antiscalant_effectiveness, 0)
        inhibitor_eff == KwGet(e.corrosion_inhibitor_effectiveness, 0)
        c1 == IF e.biocide_effectiveness # {} /\ biocide_eff > 500
              THEN [c EXCEPT !.fouling_model.biofouling_thickness =
                        Scale(@, 1000 - (biocide_eff * 3) \div 10)]
              ELSE c
        c2 == IF e.antiscalant_effectiveness # {} /\ antiscalant_eff > 500
              THEN [c1 EXCEPT !.fouling_model.scale_thickness =
                        Scale(@, 1000 - antiscalant_eff \div 5)]
              ELSE c1
    IN  IF e.corrosion_inhibitor_effectiveness # {} /\ inhibitor_eff > 500
        THEN [c2 EXCEPT !.tube_degradation.corrosion_damage_accumulation =
                  Scale(@, 1000 - inhibitor_eff \div 4)]
        ELSE c2

\* lines 1741-1757
ChemistryBalanceEffects(c, e) ==
    IF e.balance_error # {} /\ Abs(KwGet(e.balance_error, 0)) > 5000
    THEN LET fouling_acceleration == Min(100, Abs(KwGet(e.balance_error, 0)) \div 500)
             f == c.fouling_model
             grown == [f EXCEPT
                         !.biofouling_thickness = Scale(@, 1000 + fouling_acceleration),
                         !.scale_thickness = Scale(@, 1000 + fouling_acceleration \div 2),
                         !.corrosion_product_thickness =
                             Scale(@, 1000 + (fouling_acceleration * 8) \div 10)]
         IN  [c EXCEPT !.fouling_model =
                  [grown EXCEPT !.total_fouling_resistance =
                       calculate_total_fouling_resistance(grown)]]
    ELSE c

\* update_chemistry_effects(chemistry_state)
update_chemistry_effects(c, chemistry_state) ==
    ChemistryBalanceEffects(
        CoolingWaterTreatmentEffects(
            PhControlEffects(SteamChemistryEffects(c, chemistry_state), chemistry_state),
            chemistry_state),
        chemistry_state)

\* reset()
cond_reset(c) ==
    [c EXCEPT
       !.cooling_water_flow = 45000,
       !.cooling_water_inlet_temp = 25000,
       !.cooling_water_outlet_temp = 35000,
       !.thermal_performance_factor = 1000,
       !.operating_hours = 0,
       !.vacuum_system = VacuumSystemInit,
       !.tube_degradation = TubeInit(c.config),
       !.fouling_model =
           [FoulingInit EXCEPT !.cleaning_effectiveness_history =
                c.fouling_model.cleaning_effectiveness_history],
       !.water_chemistry = WaterChemistryInit]

(***************************************************************************)
(* The engines as a state machine: one engine is constructed, then the     *)
(* stepper and the maintenance scheduler call its operations in any order. *)
(***************************************************************************)
\* number of operations called on the engine after construction
MaxSteps == 3

\* the highest cooling-water velocity (m/s, thousandths) update_state is stepped
\* at: beyond it the damage and failure rates leave the 32-bit fixed-point range
MaxVelocity == 20000

\* oil_reservoir_level of the initial-condition catalog alongside the constructor's 90 %
OilLevels == {90000, 70000}

\* update_oil_quality arguments: a running hour, a hundred hot and dirty hours,
\* a step of no duration, clean make-up oil entering (negative contamination
\* input), and a step called with a negative dt
OilQualityInputs ==
    {[operating_temperature |-> 75000, contamination_input |-> 100000,
      moisture_input |-> 100, dt |-> 1000],
     [operating_temperature |-> 95000, contamination_input |-> 1000000,
      moisture_input |-> 100, dt |-> 100000],
     [operating_temperature |-> 75000, contamination_input |-> 100000,
      moisture_input |-> 100, dt |-> 0],
     [operating_temperature |-> 40000, contamination_input |-> -500000,
      moisture_input |-> 0, dt |-> 1000],
     [operating_temperature |-> 75000, contamination_input |-> 100000,
      moisture_input |-> 100, dt |-> -1000]}

\* update_component_wear: the wear rates calculate_component_wear returns, and dt
WearInputs ==
    {[wear_rate |-> [c \in ComponentIds |-> 10000], dt |-> 1000],
     [wear_rate |-> [c \in ComponentIds |-> IF c = "hp_bearing" THEN 100000 ELSE 0],
      dt |-> 100000],
     [wear_rate |-> [c \in ComponentIds |-> 10000], dt |-> 0]}

\* perform_maintenance requests of the lubrication system
LubMaintenanceRequests ==
    {[maintenance_type |-> m, kwargs |-> NoKwargs] :
        m \in LubMaintenanceTypes \cup {"oil_flush"}}
    \cup {[maintenance_type |-> "oil_top_off",
           kwargs |-> [NoKwargs EXCEPT !.target_level = {95000}]],
          [maintenance_type |-> "oil_top_off",
           kwargs |-> [NoKwargs EXCEPT !.target_level = {80000}]],
          [maintenance_type |-> "oil_top_off",
           kwargs |-> [NoKwargs EXCEPT !.target_level = {200000}]],
          [maintenance_type |-> "component_overhaul",
           kwargs |-> [NoKwargs EXCEPT !.component_id = {"hp_bearing"}]],
          [maintenance_type |-> "component_overhaul",
           kwargs |-> [NoKwargs EXCEPT !.component_id = {"lp_bearing"}]]}

\* what an operation call leaves in result before it has returned anything
NoResult == [op |-> "init", args |-> <<>>, ret |-> <<>>, pre |-> <<>>]

Called(op, args, ret, pre) == [op |-> op, args |-> args, ret |-> ret, pre |-> pre]

\* every grade at the constructor's level; the default grade at each catalog level
LubInitStates ==
    {LubInit(BaseLubricationConfig(g)) : g \in OilGrades}
    \cup {[LubInit(BaseLubricationConfig(ISO \o VG46)) EXCEPT !.oil_level = l] : l \in OilLevels}

UpdateOilQuality ==
    /\ engine = "lubrication" /\ steps < MaxSteps
    /\ \E in \in OilQualityInputs :
         /\ lub' = update_oil_quality(lub, in.operating_temperature, in.contamination_input,
                                      in.moisture_input, in.dt)
         /\ result' = Called("update_oil_quality", in, lub'.lubrication_effectiveness, lub)
    /\ steps' = steps + 1
    /\ UNCHANGED <<engine, condenser>>

UpdateComponentWear ==
    /\ engine = "lubrication" /\ steps < MaxSteps
    /\ \E in \in WearInputs :
         /\ lub' = update_component_wear(lub, in.wear_rate, in.dt)
         /\ result' = Called("update_component_wear", in, lub'.component_wear, lub)
    /\ steps' = steps + 1
    /\ UNCHANGED <<engine, condenser>>

LubPerformMaintenance ==
    /\ engine = "lubrication" /\ steps < MaxSteps
    /\ \E req \in LubMaintenanceRequests :
         LET r == lub_perform_maintenance(lub, req.maintenance_type, req.kwargs)
         IN  /\ lub' = r.state
             /\ result' = Called("perform_maintenance", req, r.ret, lub)
    /\ steps' = steps + 1
    /\ UNCHANGED <<engine, condenser>>

CheckMaintenanceRequirements ==
    /\ engine = "lubrication" /\ steps < MaxSteps
    /\ LET r == check_maintenance_requirements(lub)
       IN  /\ lub' = r.state
           /\ result' = Called("check_maintenance_requirements", <<>>, r.ret, lub)
    /\ steps' = steps + 1
    /\ UNCHANGED <<engine, condenser>>

CheckAlarmsAndTrips ==
    /\ engine = "lubrication" /\ steps < MaxSteps
    /\ LET r == check_alarms_and_trips(lub)
       IN  /\ lub' = r.state
           /\ result' = Called("check_alarms_and_trips", <<>>, r.ret, lub)
    /\ steps' = steps + 1
    /\ UNCHANGED <<engine, condenser>>

LubReset ==
    /\ engine = "lubrication" /\ steps < MaxSteps
    /\ lub' = lub_reset(lub)
    /\ result' = Called("reset", <<>>, <<>>, lub)
    /\ steps' = steps + 1
    /\ UNCHANGED <<engine, condenser>>

\* initial conditions of a configuration: none; a degraded condenser whose
\* fields agree; an active tube count given without the plugged count; fouling
\* thicknesses given together with a stated total resistance
CondInitialConditions ==
    {NoInitialConditions,
     [NoInitialConditions EXCEPT
        !.active_tube_count = {27500000}, !.plugged_tube_count = {500000},
        !.average_wall_thickness = {1100000}, !.biofouling_thickness = {5000000},
        !.scale_thickness = {3000000}, !.corrosion_thickness = {1000000},
        !.time_since_cleaning = {2000000}],
     [NoInitialConditions EXCEPT !.active_tube_count = {27000000}],
     [NoInitialConditions EXCEPT
        !.biofouling_thickness = {10000000}, !.total_fouling_resistance = {1000000}]}

CondInitStates == {CondenserInit(CondenserConfig, ic) : ic \in CondInitialConditions}

\* water chemistry the collaborator reports: design conditions, or aggressive water
WaterChemistryStates ==
    {WaterChemistryInit,
     [WaterChemistryInit EXCEPT !.ph = 8500, !.hardness = 300000, !.tds = 1200000,
                                !.chlorine_residual = 100, !.water_aggressiveness = 2000]}

\* update_state arguments and collaborator results: a running hour, a hundred
\* hours in aggressive water, a step of no duration at reduced flow
UpdateStateInputs ==
    {[cooling_water_flow |-> 45000, cooling_water_temp_in |-> 25000,
      chemistry |-> WaterChemistryInit, system_efficiency |-> 1000,
      cooling_water_temp_out |-> 35000, dt |-> 1000],
     [cooling_water_flow |-> 50000, cooling_water_temp_in |-> 28000,
      chemistry |-> [WaterChemistryInit EXCEPT !.ph = 8500, !.hardness = 300000,
                        !.tds = 1200000, !.chlorine_residual = 100,
                        !.water_aggressiveness = 2000],
      system_efficiency |-> 950, cooling_water_temp_out |-> 38000, dt |-> 100000],
     [cooling_water_flow |-> 30000, cooling_water_temp_in |-> 25000,
      chemistry |-> WaterChemistryInit, system_efficiency |-> 1000,
      cooling_water_temp_out |-> 35000, dt |-> 0]}

\* update_tube_failures arguments
TubeFailureInputs ==
    {[cooling_water_velocity |-> 3500, water_chemistry_aggressiveness |-> 1000, dt |-> 1000],
     [cooling_water_velocity |-> 5000, water_chemistry_aggressiveness |-> 2000, dt |-> 100000],
     [cooling_water_velocity |-> 2000, water_chemistry_aggressiveness |-> 500, dt |-> 0],
     [cooling_water_velocity |-> 2500, water_chemistry_aggressiveness |-> 1000, dt |-> 100000],
     [cooling_water_velocity |-> 3500, water_chemistry_aggressiveness |-> 1000, dt |-> -1000]}

\* update_fouling arguments; the empty chemistry dictionary takes every default
FoulingInputs ==
    {[water_temp |-> 30000, water_chemistry |-> ChemistryDefaults,
      flow_velocity |-> 2000, dt |-> 100000],
     [water_temp |-> 30000, water_chemistry |-> ChemistryDefaults,
      flow_velocity |-> 2000, dt |-> 0]}

CleaningTypes == {"chemical", "mechanical", "hydroblast", "ultrasonic"}

\* perform_maintenance requests of the condenser
CondMaintenanceRequests ==
    {[maintenance_type |-> m, kwargs |-> NoKwargs] :
        m \in CondMaintenanceTypes \cup {"condenser_retubing"}}
    \cup {[maintenance_type |-> "condenser_tube_cleaning",
           kwargs |-> [NoKwargs EXCEPT !.cleaning_type = {"mechanical"}]],
          [maintenance_type |-> "condenser_tube_plugging",
           kwargs |-> [NoKwargs EXCEPT !.tubes_to_plug = {500000}]],
          [maintenance_type |-> "condenser_tube_plugging",
           kwargs |-> [NoKwargs EXCEPT !.tubes_to_plug = {30000000}]]}

\* update_chemistry_effects arguments
ChemistryEffects ==
    {[NoChemistryEffects EXCEPT !.biocide_effectiveness = {800}],
     [NoChemistryEffects EXCEPT !.ph_stability = {950}, !.antiscalant_effectiveness = {800},
                                !.corrosion_inhibitor_effectiveness = {800}],
     [NoChemistryEffects EXCEPT !.steam_quality = {900}, !.balance_error = {10000}],
     [NoChemistryEffects EXCEPT !.biocide_effectiveness = {300}, !.ph_stability = {850},
                                !.steam_quality = {990}]}

UpdateState ==
    /\ engine = "condenser" /\ steps < MaxSteps
    /\ \E in \in UpdateStateInputs :
         /\ CoolingWaterVelocity(condenser.config, in.cooling_water_flow,
                                 condenser.tube_degradation.active_tube_count) <= MaxVelocity
         /\ LET r == update_state(condenser, in)
            IN  /\ condenser' = r.state
                /\ result' = Called("update_state", in, r.ret, condenser)
    /\ steps' = steps + 1
    /\ UNCHANGED <<engine, lub>>

UpdateTubeFailures ==
    /\ engine = "condenser" /\ steps < MaxSteps
    /\ \E in \in TubeFailureInputs :
         LET r == update_tube_failures(condenser.config, condenser.tube_degradation,
                                       in.cooling_water_velocity,
                                       in.water_chemistry_aggressiveness, in.dt)
         IN  /\ condenser' = [condenser EXCEPT !.tube_degradation = r.state]
             /\ result' = Called("update_tube_failures", in, r.ret, condenser)
    /\ steps' = steps + 1
    /\ UNCHANGED <<engine, lub>>

UpdateFouling ==
    /\ engine = "condenser" /\ steps < MaxSteps
    /\ \E in \in FoulingInputs :
         LET f == update_fouling(condenser.config, condenser.fouling_model, in.water_temp,
                                 in.water_chemistry, in.flow_velocity, in.dt)
         IN  /\ condenser' = [condenser EXCEPT !.fouling_model = f]
             /\ result' = Called("update_fouling", in, f.total_fouling_resistance, condenser)
    /\ steps' = steps + 1
    /\ UNCHANGED <<engine, lub>>

PerformCleaning ==
    /\ engine = "condenser" /\ steps < MaxSteps
    /\ \E cleaning_type \in CleaningTypes :
         LET r == perform_cleaning(condenser.fouling_model, cleaning_type)
         IN  /\ condenser' = [condenser EXCEPT !.fouling_model = r.state]
             /\ result' = Called("perform_cleaning", cleaning_type, r.ret, condenser)
    /\ steps' = steps + 1
    /\ UNCHANGED <<engine, lub>>

CondPerformMaintenance ==
    /\ engine = "condenser" /\ steps < MaxSteps
    /\ \E req \in CondMaintenanceRequests :
         \E treated \in (IF req.maintenance_type = "condenser_water_treatment"
                         THEN WaterChemistryStates ELSE {WaterChemistryInit}) :
            LET r == cond_perform_maintenance(condenser, req.maintenance_type, req.kwargs,
                                              treated)
            IN  /\ condenser' = r.state
                /\ result' = Called("perform_maintenance", req, r.ret, condenser)
    /\ steps' = steps + 1
    /\ UNCHANGED <<engine, lub>>

UpdateChemistryEffects ==
    /\ engine = "condenser" /\ steps < MaxSteps
    /\ \E chemistry_state \in ChemistryEffects :
         /\ condenser' = update_chemistry_effects(condenser, chemistry_state)
         /\ result' = Called("update_chemistry_effects", chemistry_state, <<>>, condenser)
    /\ steps' = steps + 1
    /\ UNCHANGED <<engine, lub>>

CondReset ==
    /\ engine = "condenser" /\ steps < MaxSteps
    /\ condenser' = cond_reset(condenser)
    /\ result' = Called("reset", <<>>, <<>>, condenser)
    /\ steps' = steps + 1
    /\ UNCHANGED <<engine, lub>>

Init ==
    /\ engine \in {"lubrication", "condenser"}
    /\ lub \in (IF engine = "lubrication" THEN LubInitStates ELSE {<<>>})
    /\ condenser \in (IF engine = "condenser" THEN CondInitStates ELSE {<<>>})
    /\ result = NoResult
    /\ steps = 0

Next ==
    \/ UpdateOilQuality
    \/ UpdateComponentWear
    \/ LubPerformMaintenance
    \/ CheckMaintenanceRequirements
    \/ CheckAlarmsAndTrips
    \/ LubReset
    \/ UpdateState
    \/ UpdateTubeFailures
    \/ UpdateFouling
    \/ PerformCleaning
    \/ CondPerformMaintenance
    \/ UpdateChemistryEffects
    \/ CondReset

Spec == Init /\ [][Next]_vars

(***************************************************************************)
(* Scenario C: a clean fouling model run hour by hour under constant        *)
(* drivers, then cleaned chemically                                         *)
(***************************************************************************)
\* the number of one-hour steps the scenario runs at most
ScenarioSteps == 40

\* the constant drivers of a run (dt = 1 h): default chemistry in warm water,
\* hard alkaline water with little chlorine, cool soft water at low velocity
ScenarioDrivers ==
    {[water_temp |-> 30000, water_chemistry |-> ChemistryDefaults,
      flow_velocity |-> 2000, dt |-> 1000],
     [water_temp |-> 35000,
      water_chemistry |-> [ChemistryDefaults EXCEPT !.hardness = 300000, !.ph = 8500,
                                                    !.chlorine_residual = 100],
      flow_velocity |-> 2500, dt |-> 1000],
     [water_temp |-> 20000,
      water_chemistry |-> [ChemistryDefaults EXCEPT !.hardness = 100000, !.ph = 7000],
      flow_velocity |-> 1000, dt |-> 1000]}

ScenarioInit ==
    /\ engine = "condenser"
    /\ lub = <<>>
    /\ condenser = CondenserInit(CondenserConfig, NoInitialConditions)
    /\ result = NoResult
    /\ steps = 0

\* one more hour of update_fouling, with the drivers the run started with
ScenarioUpdateFouling ==
    /\ steps < ScenarioSteps
    /\ result.op \in {"init", "update_fouling"}
    /\ \E in \in ScenarioDrivers :
         /\ result.op = "update_fouling" => in = result.args
         /\ LET f == update_fouling(condenser.config, condenser.fouling_model, in.water_temp,
                                    in.water_chemistry, in.flow_velocity, in.dt)
            IN  /\ condenser' = [condenser EXCEPT !.fouling_model = f]
                /\ result' = Called("update_fouling", in, f.total_fouling_resistance, condenser)
    /\ steps' = steps + 1
    /\ UNCHANGED <<engine, lub>>

\* the clean("chemical") call that ends the run
ScenarioClean ==
    /\ result.op = "update_fouling"
    /\ LET r == perform_cleaning(condenser.fouling_model, "chemical")
       IN  /\ condenser' = [condenser EXCEPT !.fouling_model = r.state]
           /\ result' = Called("perform_cleaning", "chemical", r.ret, condenser)
    /\ steps' = steps + 1
    /\ UNCHANGED <<engine, lub>>

ScenarioNext ==
    \/ ScenarioUpdateFouling
    \/ ScenarioClean

ScenarioC == ScenarioInit /\ [][ScenarioNext]_vars

(***************************************************************************)
(* Maintenance runs: a fresh condenser on which the scheduler performs one  *)
(* recognised maintenance action after another, with no step in between     *)
(***************************************************************************)
\* the number of maintenance actions performed in a run at most
MaintenanceSteps == 8

\* one recognised action with its default arguments; the water treatment is
\* reported to leave the chemistry at design conditions
MaintenanceRunStep ==
    /\ steps < MaintenanceSteps
    /\ \E m \in CondMaintenanceTypes :
         LET r == cond_perform_maintenance(condenser, m, NoKwargs, WaterChemistryInit)
         IN  /\ condenser' = r.state
             /\ result' = Called("perform_maintenance",
                                 [maintenance_type |-> m, kwargs |-> NoKwargs], r.ret, condenser)
    /\ steps' = steps + 1
    /\ UNCHANGED <<engine, lub>>

MaintenanceRuns == ScenarioInit /\ [][MaintenanceRunStep]_vars

(***************************************************************************)
(* Properties                                                              *)
(***************************************************************************)
\* C1: perform_maintenance with an action name that is not a recognised kind
\* returns success = false and duration 0 and leaves the whole engine state,
\* lubrication system or condenser, exactly as it was before the call.
C1_UnknownMaintenanceChangesNothing ==
    (/\ result.op = "perform_maintenance"
     /\ \/ engine = "lubrication" /\ result.args.maintenance_type \notin LubMaintenanceTypes
        \/ engine = "condenser" /\ result.args.maintenance_type \notin CondMaintenanceTypes)
    => /\ result.ret.success = FALSE
       /\ result.ret.duration_hours = 0
       /\ engine = "lubrication" => lub = result.pre
       /\ engine = "condenser" => condenser = result.pre

\* an unrecognised action requested on a lubrication system whose oil has degraded
C1_Witness ==
    /\ engine = "lubrication"
    /\ result.op = "perform_maintenance"
    /\ result.args.maintenance_type = "oil_flush"
    /\ result.pre.oil_contamination_level > 5000000
    /\ result.pre.oil_operating_hours > 0

\* C2: lubrication_effectiveness is within [0.3, 1.0] in every reachable state
\* of the lubrication system.
C2_EffectivenessBounded ==
    engine = "lubrication" =>
        /\ lub.lubrication_effectiveness >= 300
        /\ lub.lubrication_effectiveness <= 1000

\* an oil-quality step that ends on the lower bound with the anti-wear additive used up
C2_Witness ==
    /\ engine = "lubrication"
    /\ result.op = "update_oil_quality"
    /\ lub.anti_wear_additive_level = 0
    /\ lub.lubrication_effectiveness = 300

\* C3: an update step with dt >= 0 and non-negative drivers leaves every
\* accumulator at least at its value before the step: the three fouling
\* thicknesses, the vibration and corrosion damage, and each component's wear.
C3_AccumulatorsNonDecreasing ==
    /\ (result.op \in {"update_fouling", "update_state"} /\ result.args.dt >= 0) =>
         /\ condenser.fouling_model.biofouling_thickness
              >= result.pre.fouling_model.biofouling_thickness
         /\ condenser.fouling_model.scale_thickness
              >= result.pre.fouling_model.scale_thickness
         /\ condenser.fouling_model.corrosion_product_thickness
              >= result.pre.fouling_model.corrosion_product_thickness
    /\ (result.op \in {"update_tube_failures", "update_state"} /\ result.args.dt >= 0) =>
         /\ condenser.tube_degradation.vibration_damage_accumulation
              >= result.pre.tube_degradation.vibration_damage_accumulation
         /\ condenser.tube_degradation.corrosion_damage_accumulation
              >= result.pre.tube_degradation.corrosion_damage_accumulation
    /\ (/\ result.op = "update_component_wear"
        /\ result.args.dt >= 0
        /\ \A c \in ComponentIds : result.args.wear_rate[c] >= 0) =>
         \A c \in ComponentIds : lub.component_wear[c] >= result.pre.component_wear[c]

\* a condenser step in which fouling and both damage accumulators grew
C3_Witness ==
    /\ result.op = "update_state"
    /\ result.args.dt > 0
    /\ condenser.fouling_model.biofouling_thickness
         > result.pre.fouling_model.biofouling_thickness
    /\ condenser.tube_degradation.vibration_damage_accumulation
         > result.pre.tube_degradation.vibration_damage_accumulation
    /\ condenser.tube_degradation.corrosion_damage_accumulation
         > result.pre.tube_degradation.corrosion_damage_accumulation

\* C4: outside cleaning and maintenance no operation of the condenser lowers a
\* fouling thickness: not update_state, update_fouling, update_tube_failures
\* or update_chemistry_effects.
C4_ThicknessLoweredOnlyByCleaning ==
    result.op \in {"update_state", "update_fouling", "update_tube_failures",
                   "update_chemistry_effects"} =>
        /\ condenser.fouling_model.biofouling_thickness
             >= result.pre.fouling_model.biofouling_thickness
        /\ condenser.fouling_model.scale_thickness
             >= result.pre.fouling_model.scale_thickness
        /\ condenser.fouling_model.corrosion_product_thickness
             >= result.pre.fouling_model.corrosion_product_thickness

\* C5: the tubes failed in a tube-failure step, the increase of
\* plugged_tube_count, are at most 1 % of active_tube_count at the start of the step.
C5_FailuresCapped ==
    (result.op \in {"update_tube_failures", "update_state"} /\ result.args.dt >= 0) =>
        /\ 100 * (condenser.tube_degradation.plugged_tube_count
                    - result.pre.tube_degradation.plugged_tube_count)
             <= result.pre.tube_degradation.active_tube_count
        /\ 100 * result.ret.tubes_failed_this_step
             <= result.pre.tube_degradation.active_tube_count

\* a step whose failures were cut to exactly 1 % of the active tubes
C5_Witness ==
    /\ result.op = "update_tube_failures"
    /\ result.ret.tubes_failed_this_step > 0
    /\ result.ret.tubes_failed_this_step
         = result.pre.tube_degradation.active_tube_count \div 100
    /\ condenser.tube_degradation.plugged_tube_count
         = result.pre.tube_degradation.plugged_tube_count
             + result.pre.tube_degradation.active_tube_count \div 100

\* C6: after a cleaning action (perform_cleaning of any type, or the
\* maintenance actions condenser_tube_cleaning and condenser_chemical_cleaning)
\* total_fouling_resistance is at most its value immediately before the call.
C6_CleaningNeverRaisesResistance ==
    (\/ result.op = "perform_cleaning"
     \/ /\ engine = "condenser"
        /\ result.op = "perform_maintenance"
        /\ result.args.maintenance_type
             \in {"condenser_tube_cleaning", "condenser_chemical_cleaning"})
    => condenser.fouling_model.total_fouling_resistance
         <= result.pre.fouling_model.total_fouling_resistance

\* C7: an update step with dt = 0 leaves the accumulators unchanged: fouling
\* thicknesses and time_since_cleaning; vibration and corrosion damage, wall
\* thickness, plugged and active tube counts; contamination, acidity, moisture,
\* viscosity change, additive levels and operating hours; component wear.
C7_ZeroStepChangesNoAccumulator ==
    /\ (result.op \in {"update_fouling", "update_state"} /\ result.args.dt = 0) =>
         /\ condenser.fouling_model.biofouling_thickness
              = result.pre.fouling_model.biofouling_thickness
         /\ condenser.fouling_model.scale_thickness
              = result.pre.fouling_model.scale_thickness
         /\ condenser.fouling_model.corrosion_product_thickness
              = result.pre.fouling_model.corrosion_product_thickness
         /\ condenser.fouling_model.time_since_cleaning
              = result.pre.fouling_model.time_since_cleaning
    /\ (result.op \in {"update_tube_failures", "update_state"} /\ result.args.dt = 0) =>
         /\ condenser.tube_degradation.vibration_damage_accumulation
              = result.pre.tube_degradation.vibration_damage_accumulation
         /\ condenser.tube_degradation.corrosion_damage_accumulation
              = result.pre.tube_degradation.corrosion_damage_accumulation
         /\ condenser.tube_degradation.average_wall_thickness
              = result.pre.tube_degradation.average_wall_thickness
         /\ condenser.tube_degradation.plugged_tube_count
              = result.pre.tube_degradation.plugged_tube_count
         /\ condenser.tube_degradation.active_tube_count
              = result.pre.tube_degradation.active_tube_count
    /\ (result.op = "update_oil_quality" /\ result.args.dt = 0) =>
         /\ lub.oil_contamination_level = result.pre.oil_contamination_level
         /\ lub.oil_acidity_number = result.pre.oil_acidity_number
         /\ lub.oil_moisture_content = result.pre.oil_moisture_content
         /\ lub.oil_viscosity_change = result.pre.oil_viscosity_change
         /\ lub.antioxidant_level = result.pre.antioxidant_level
         /\ lub.anti_wear_additive_level = result.pre.anti_wear_additive_level
         /\ lub.corrosion_inhibitor_level = result.pre.corrosion_inhibitor_level
         /\ lub.oil_operating_hours = result.pre.oil_operating_hours
         /\ lub.operating_hours = result.pre.operating_hours
    /\ (result.op = "update_component_wear" /\ result.args.dt = 0) =>
         lub.component_wear = result.pre.component_wear

\* C8: on a freshly constructed lubrication system (contamination 5.0 ppm,
\* antioxidant 100 %), once perform_maintenance("oil_change") has returned the
\* contamination is the fresh-oil baseline 0.5 ppm and the antioxidant level 100 %.
C8_OilChangeOnFreshSystem ==
    (/\ engine = "lubrication"
     /\ steps = 1
     /\ result.op = "perform_maintenance"
     /\ result.args.maintenance_type = "oil_change")
    => /\ lub.oil_contamination_level = 500000
       /\ lub.antioxidant_level = 100000000

C10_TopOffDilutesContamination ==
    (/\ engine = "lubrication"
     /\ result.op = "perform_maintenance"
     /\ result.args.maintenance_type = "oil_top_off"
     /\ result.args.kwargs.target_level = {95000}
     /\ result.pre.oil_level = 70000
     /\ result.pre.oil_contamination_level = 5000000
     /\ result.pre.oil_acidity_number = 150000
     /\ result.pre.oil_moisture_content = 20000)
    => /\ lub.oil_level = 95000
       /\ lub.oil_contamination_level < result.pre.oil_contamination_level
       /\ result.pre.oil_contamination_level - lub.oil_contamination_level
            = MulDiv(result.pre.oil_contamination_level, 7 * 25, 1000)

\* the top-off of the scenario, on the system as constructed at 70 %
C10_Witness ==
    /\ engine = "lubrication"
    /\ steps = 1
    /\ result.op = "perform_maintenance"
    /\ result.args.maintenance_type = "oil_top_off"
    /\ result.args.kwargs.target_level = {95000}
    /\ result.pre.oil_level = 70000
    /\ result.pre.oil_contamination_level = 5000000
    /\ lub.oil_contamination_level = 4125000

\* C11: perform_maintenance("oil_top_off") called when oil_level is already at
\* or above the target level returns success and changes no state field: oil
\* level, oil quality, additive levels, wear, counters and
\* lubrication_effectiveness are as before the call, from any reachable state.
C11_TopOffAtTargetChangesNothing ==
    (/\ engine = "lubrication"
     /\ result.op = "perform_maintenance"
     /\ result.args.maintenance_type = "oil_top_off"
     /\ result.pre.oil_level >= KwGet(result.args.kwargs.target_level, 95000))
    => /\ result.ret.success = TRUE
       /\ lub = result.pre

\* C12: the dilution factor of oil_top_off never exceeds 1, whatever the target
\* level and the starting oil level: contamination, acidity and moisture keep at
\* least the share 1 - 0.7, 1 - 0.4 and 1 - 0.5 of their prior value, and the
\* additive boost is at most 30 points (24 for anti-wear, 18 for the corrosion
\* inhibitor).
C12_DilutionFactorAtMostOne ==
    (/\ engine = "lubrication"
     /\ result.op = "perform_maintenance"
     /\ result.args.maintenance_type = "oil_top_off")
    => /\ lub.oil_contamination_level >= Scale(result.pre.oil_contamination_level, 300)
       /\ lub.oil_acidity_number >= Scale(result.pre.oil_acidity_number, 600)
       /\ lub.oil_moisture_content >= Scale(result.pre.oil_moisture_content, 500)
       /\ lub.antioxidant_level - result.pre.antioxidant_level <= 30000000
       /\ lub.anti_wear_additive_level - result.pre.anti_wear_additive_level <= 24000000
       /\ lub.corrosion_inhibitor_level - result.pre.corrosion_inhibitor_level <= 18000000

\* C13: from a clean fouling model, every one-hour update_fouling step under
\* constant drivers with positive growth rates leaves total_fouling_resistance
\* strictly above its value before the step; the perform_cleaning("chemical")
\* that follows leaves it strictly below its value just before the cleaning and
\* sets time_since_cleaning to 0.
C13_FoulingGrowsUntilCleaned ==
    /\ result.op = "update_fouling" =>
         condenser.fouling_model.total_fouling_resistance
           > result.pre.fouling_model.total_fouling_resistance
    /\ result.op = "perform_cleaning" =>
         /\ condenser.fouling_model.total_fouling_resistance
              < result.pre.fouling_model.total_fouling_resistance
         /\ condenser.fouling_model.time_since_cleaning = 0

\* a chemical cleaning after more than thirty hours of growth in all three deposits
C13_Witness ==
    /\ result.op = "perform_cleaning"
    /\ result.args = "chemical"
    /\ result.pre.fouling_model.time_since_cleaning >= 30000
    /\ result.pre.fouling_model.biofouling_thickness > 0
    /\ result.pre.fouling_model.scale_thickness > 0
    /\ result.pre.fouling_model.corrosion_product_thickness > 0
    /\ condenser.fouling_model.total_fouling_resistance > 0
    /\ condenser.fouling_model.time_since_cleaning = 0

\* C14: vibration_damage_accumulation is unchanged by a tube-failure step whose
\* cooling-water velocity does not exceed vibration_damage_threshold, so it
\* stays at zero while the velocity never exceeds it; in a step above the
\* threshold it grows by (velocity - threshold)^2 x 0.001 x dt; no other
\* operation changes it, except reset, which returns it to zero.
C14_VibrationDamageOnlyAboveThreshold ==
    (engine = "condenser" /\ result.op # "init") =>
        LET before == result.pre.tube_degradation.vibration_damage_accumulation
            after == condenser.tube_degradation.vibration_damage_accumulation
            velocity == IF result.op = "update_state" THEN result.ret.cooling_water_velocity
                        ELSE result.args.cooling_water_velocity
            excess == velocity - condenser.config.vibration_damage_threshold
        IN  IF result.op \in {"update_tube_failures", "update_state"}
            THEN /\ excess <= 0 => after = before
                 /\ excess > 0 =>
                      after = before + Scale(MulDiv(excess, excess, 1000), result.args.dt)
            ELSE IF result.op = "reset" THEN after = 0 ELSE after = before

\* a hundred hours below the threshold on a condenser that has accrued no damage
C14_Witness ==
    /\ result.op = "update_tube_failures"
    /\ result.args.dt > 0
    /\ result.args.cooling_water_velocity > 0
    /\ result.args.cooling_water_velocity < condenser.config.vibration_damage_threshold
    /\ result.pre.tube_degradation.operating_hours > 0
    /\ condenser.tube_degradation.operating_hours > result.pre.tube_degradation.operating_hours
    /\ condenser.tube_degradation.vibration_damage_accumulation = 0

\* C15: after reset() every state field has its value in a freshly constructed
\* engine: the whole lubrication state, the viscosities at 40 C and 100 C
\* included, and every field of the condenser's tube-degradation and fouling
\* models.
C15_ResetRestoresConstructedState ==
    result.op = "reset" =>
        /\ engine = "lubrication" => lub = LubInit(lub.config)
        /\ engine = "condenser" =>
              /\ condenser.tube_degradation = TubeInit(condenser.config)
              /\ condenser.fouling_model = FoulingInit

\* C16: active_tube_count never falls below the floor of 1000 tubes, whatever
\* sequence of update_tube_failures steps and tube-plugging actions (any
\* tubes_to_plug >= 0) the condenser goes through.
C16_ActiveTubesAtLeastFloor ==
    engine = "condenser" => condenser.tube_degradation.active_tube_count >= 1000000

\* a tube-failure step on a condenser plugged beyond its tube count: the floor holds
C16_Witness ==
    /\ result.op = "update_tube_failures"
    /\ result.args.dt > 0
    /\ condenser.tube_degradation.plugged_tube_count > condenser.config.initial_tube_count
    /\ condenser.tube_degradation.plugged_tube_count
         > result.pre.tube_degradation.plugged_tube_count
    /\ condenser.tube_degradation.active_tube_count = 1000000

\* C17: after a condenser_tube_plugging action both derived capacity factors
\* follow the new active tube count, as after an update_tube_failures step:
\* effective_heat_transfer_area_factor = active / initial and
\* tube_side_pressure_drop_factor = (initial / active)^1.8.
C17_PluggingRederivesFactors ==
    (/\ engine = "condenser"
     /\ result.op = "perform_maintenance"
     /\ result.args.maintenance_type = "condenser_tube_plugging")
    => LET t == condenser.tube_degradation
           initial == condenser.config.initial_tube_count
       IN  /\ t.effective_heat_transfer_area_factor
                = t.active_tube_count \div (initial \div 1000)
           /\ t.tube_side_pressure_drop_factor
                = Pow18(initial \div (t.active_tube_count \div 1000))

\* C18: every result perform_maintenance returns, from the lubrication system
\* or the condenser, for any action and parameters, carries an effectiveness
\* score within [0, 1].
C18_EffectivenessScoreInUnitRange ==
    result.op = "perform_maintenance" =>
        /\ engine = "lubrication" =>
              /\ result.ret.effectiveness_score >= 0
              /\ result.ret.effectiveness_score <= 1000
        /\ engine = "condenser" =>
              \A score \in result.ret.effectiveness_score : score >= 0 /\ score <= 1000

\* C19: the effectiveness_score of a maintenance action that is not a pure
\* inspection (oil_change, filtration, filter_change, additive_treatment,
\* routine_maintenance, component_overhaul) follows the magnitude of the state
\* change the call produced and is not a fixed constant: the call made, and the
\* same call repeated on the state it left, report different scores when they
\* change the oil quality, additives, level and wear by different amounts.
C19_ScoreFollowsMagnitude ==
    (/\ engine = "lubrication"
     /\ result.op = "perform_maintenance"
     /\ result.args.maintenance_type \in
            {"oil_change", "filtration", "filter_change", "additive_treatment",
             "routine_maintenance", "component_overhaul"})
    => LET Magnitude(a, b) ==
               Abs(a.oil_contamination_level - b.oil_contamination_level)
               + Abs(a.oil_acidity_number - b.oil_acidity_number)
               + Abs(a.oil_moisture_content - b.oil_moisture_content)
               + Abs(a.oil_viscosity_change - b.oil_viscosity_change)
               + Abs(a.antioxidant_level - b.antioxidant_level)
               + Abs(a.anti_wear_additive_level - b.anti_wear_additive_level)
               + Abs(a.corrosion_inhibitor_level - b.corrosion_inhibitor_level)
               + Abs(a.oil_level - b.oil_level)
               + SumOver([c \in ComponentIds |->
                             Abs(a.component_wear[c] - b.component_wear[c])], ComponentIds)
           again == lub_perform_maintenance(lub, result.args.maintenance_type,
                                            result.args.kwargs)
       IN  Magnitude(result.pre, lub) # Magnitude(lub, again.state)
             => result.ret.effectiveness_score # again.ret.effectiveness_score

\* C20: an update step called with a negative dt is rejected: it is not applied,
\* so the engine state after the call is the state before it and no accumulator
\* (operating hours, wear, fouling thickness, damage, time_since_cleaning) has
\* decreased.
C20_NegativeStepRejected ==
    (/\ result.op \in {"update_oil_quality", "update_component_wear", "update_state",
                       "update_tube_failures", "update_fouling"}
     /\ result.args.dt < 0)
    => /\ engine = "lubrication" => lub = result.pre
       /\ engine = "condenser" => condenser = result.pre

\* C21: perform_maintenance with a recognised action kind always returns a
\* result and never raises, whatever physical state the engine is in (zero air
\* leakage, zero fouling resistance, zero wear included), and the result
\* reports success: failure is signalled only for a malformed request.
C21_RecognisedMaintenanceNeverRaises ==
    (/\ result.op = "perform_maintenance"
     /\ result.args.maintenance_type \in CondMaintenanceTypes)
    => /\ result.ret.raised = FALSE
       /\ result.ret.success = TRUE

\* C22: check_alarms_and_trips and check_maintenance_requirements only
\* classify: the call changes no field of the engine state, and the same call
\* made again with no operation in between returns the same result.
C22_ChecksChangeNothing ==
    /\ result.op = "check_alarms_and_trips" =>
         /\ lub = result.pre
         /\ check_alarms_and_trips(lub).ret = result.ret
    /\ result.op = "check_maintenance_requirements" =>
         /\ lub = result.pre
         /\ check_maintenance_requirements(lub).ret = result.ret


\* C23: after every update_fouling step and after every cleaning the stored
\* total_fouling_resistance is the sum of thickness / conductivity over the
\* three mechanisms times the current fouling_distribution_factor, and that
\* factor is min(1.5, 1 + time_since_cleaning / 8760) for the current time.
C23_StoredResistanceUsesCurrentFactor ==
    result.op \in {"update_fouling", "perform_cleaning"} =>
        LET f == condenser.fouling_model
            current_factor == DistributionFactor(f.time_since_cleaning)
        IN  /\ f.fouling_distribution_factor = current_factor
            /\ f.total_fouling_resistance =
                   Scale(2 * f.biofouling_thickness + f.scale_thickness \div 2
                             + f.corrosion_product_thickness,
                         current_factor)

\* C24: in an update_oil_quality step with dt >= 0 the oil temperature changes
\* by at most 10 x dt degrees whatever the operating temperature, and the oil
\* temperature is within [20, 120] C in every state of the system.
C24_TemperatureRateLimited ==
    engine = "lubrication" =>
        /\ lub.oil_temperature >= 20000 /\ lub.oil_temperature <= 120000
        /\ (result.op = "update_oil_quality" /\ result.args.dt >= 0) =>
              LET change == lub.oil_temperature - result.pre.oil_temperature
              IN  /\ change <= 10 * result.args.dt
                  /\ 0 - change <= 10 * result.args.dt

\* a step whose lag asked for more than the limit and moved exactly 10 x dt
C24_Witness ==
    /\ result.op = "update_oil_quality" /\ result.args.dt > 0
    /\ Scale(2 * (result.args.operating_temperature - result.pre.oil_temperature),
             result.args.dt) > 10 * result.args.dt
    /\ lub.oil_temperature - result.pre.oil_temperature = 10 * result.args.dt

\* C25: an update_oil_quality step with dt > 0 and a target within
\* [20, 120] C does not overshoot: the new oil temperature lies between
\* the old oil temperature and the operating temperature, whatever dt.
C25_TemperatureDoesNotOvershoot ==
    (/\ result.op = "update_oil_quality"
     /\ result.args.dt > 0
     /\ result.args.operating_temperature >= 20000
     /\ result.args.operating_temperature <= 120000) =>
        LET old == result.pre.oil_temperature
            target == result.args.operating_temperature
        IN  /\ Min(old, target) <= lub.oil_temperature
            /\ lub.oil_temperature <= Max(old, target)

\* C26: a lubrication maintenance action changes only its own fields:
\* filtration changes only oil_contamination_level, filter_change that and the
\* filter-change counter, additive_treatment only the three additive levels,
\* each plus the derived lubrication_effectiveness; and no action other than
\* component_overhaul changes a component's wear or performance factor.
C26_MaintenanceChangesOnlyItsFields ==
    (engine = "lubrication" /\ result.op = "perform_maintenance") =>
        LET changed == {k \in DOMAIN lub : lub[k] # result.pre[k]}
            kind == result.args.maintenance_type
        IN  /\ kind = "filtration" =>
                  changed \subseteq {"oil_contamination_level", "lubrication_effectiveness"}
            /\ kind = "filter_change" =>
                  changed \subseteq {"oil_contamination_level", "filter_changes_performed",
                                     "lubrication_effectiveness"}
            /\ kind = "additive_treatment" =>
                  changed \subseteq {"antioxidant_level", "anti_wear_additive_level",
                                     "corrosion_inhibitor_level", "lubrication_effectiveness"}
            /\ kind # "component_overhaul" =>
                  /\ "component_wear" \notin changed
                  /\ "component_performance_factors" \notin changed

\* a filter change on a worn system that did change contamination and counter
C26_Witness ==
    /\ engine = "lubrication"
    /\ result.op = "perform_maintenance"
    /\ result.args.maintenance_type = "filter_change"
    /\ result.ret.success
    /\ \E c \in ComponentIds : result.pre.component_wear[c] > 0
    /\ lub.oil_contamination_level < result.pre.oil_contamination_level
    /\ lub.filter_changes_performed = result.pre.filter_changes_performed + 1
    /\ lub.lubrication_effectiveness # result.pre.lubrication_effectiveness

\* C27: starting from a constructed or reset system, oil_contamination_level
\* is at least 1.0 ppm after every update_oil_quality step and after every
\* successful perform_maintenance call.
C27_ContaminationAtLeastOnePpm ==
    (/\ engine = "lubrication"
     /\ \/ result.op = "update_oil_quality"
        \/ result.op = "perform_maintenance" /\ result.ret.success) =>
        lub.oil_contamination_level >= 1000000

\* a step or a maintenance call that ended exactly on the floor
C27_Witness ==
    /\ engine = "lubrication"
    /\ \/ result.op = "update_oil_quality"
       \/ result.op = "perform_maintenance" /\ result.ret.success
    /\ result.pre.oil_contamination_level > 1000000
    /\ lub.oil_contamination_level = 1000000

\* C28: after every update_tube_failures step and after every
\* condenser_tube_plugging action active_tube_count equals
\* max(1000, initial_tube_count - plugged_tube_count), so that active plus
\* plugged is the initial count whenever the active count is above the floor,
\* from every constructed state, with or without overrides of the tube counts.
C28_ActiveIsInitialMinusPlugged ==
    (/\ engine = "condenser"
     /\ \/ result.op = "update_tube_failures"
        \/ /\ result.op = "perform_maintenance"
           /\ result.args.maintenance_type = "condenser_tube_plugging") =>
        LET t == condenser.tube_degradation
        IN  /\ t.active_tube_count =
                   Max(1000000, condenser.config.initial_tube_count - t.plugged_tube_count)
            /\ t.active_tube_count > 1000000 =>
                   t.active_tube_count + t.plugged_tube_count =
                       condenser.config.initial_tube_count

\* C29: the inspection action efficiency_analysis changes no state field:
\* oil quality, additive levels, component wear, counters and
\* lubrication_effectiveness are after the call what they were before it, from
\* every reachable state, a constructed or reset system included.
C29_EfficiencyAnalysisChangesNothing ==
    (/\ engine = "lubrication"
     /\ result.op = "perform_maintenance"
     /\ result.args.maintenance_type = "efficiency_analysis") =>
        lub = result.pre

\* C30: component_overhaul given the id of a tracked component resets that
\* component alone (wear 0, performance factor 1) and leaves every other
\* component's wear unchanged; given an id that names no tracked component it
\* succeeds through the overhaul-all branch, every component's wear becoming
\* 10% of its value.
C30_OverhaulByComponentId ==
    (/\ engine = "lubrication"
     /\ result.op = "perform_maintenance"
     /\ result.args.maintenance_type = "component_overhaul"
     /\ result.args.kwargs.component_id # {}) =>
        LET component_id == KwGet(result.args.kwargs.component_id, "")
            pre == result.pre
        IN  IF component_id \in ComponentIds
            THEN /\ result.ret.success
                 /\ lub.component_wear[component_id] = 0
                 /\ lub.component_performance_factors[component_id] = 1000
                 /\ \A c \in ComponentIds \ {component_id} :
                       /\ lub.component_wear[c] = pre.component_wear[c]
                       /\ lub.component_performance_factors[c] =
                              pre.component_performance_factors[c]
            ELSE /\ result.ret.success
                 /\ \A c \in ComponentIds :
                       lub.component_wear[c] = Scale(pre.component_wear[c], 100)

\* an overhaul asked for an untracked component on a worn system
C30_Witness ==
    /\ engine = "lubrication"
    /\ result.op = "perform_maintenance"
    /\ result.args.maintenance_type = "component_overhaul"
    /\ result.args.kwargs.component_id = {"lp_bearing"}
    /\ result.ret.success
    /\ \A c \in ComponentIds : result.pre.component_wear[c] > 0
    /\ \A c \in ComponentIds : lub.component_wear[c] < result.pre.component_wear[c]
====
